---- MODULE Spec2Model ----
(***************************************************************************)
(* fbclock: the shared-memory exchange between the publishing daemon and   *)
(* the reading library (v1 checksum frame, v2 seqlock frame), the gettime  *)
(* validation chain, and the TrueTime assembler, modelled from             *)
(* src/fbclock/fbclock.c and src/fbclock/fbclock.h.                        *)
(*                                                                         *)
(* Fixed-width integers are little-endian byte sequences, so that 64-bit   *)
(* arithmetic keeps its width: a uint64_t is 8 bytes and every operation   *)
(* on it is taken modulo 2^64.  An int64_t is the same 8 bytes read in     *)
(* two's complement.  A double is a pair (m, e) standing for m * 2^e with  *)
(* a 53-bit mantissa, and every double operation rounds to nearest-even    *)
(* as IEEE 754 binary64 does.                                              *)
(***************************************************************************)
EXTENDS Integers, Sequences, FiniteSets, TLC

----------------------------------------------------------------------------
(* Natural numbers of any size: little-endian sequences of bytes.          *)

Get(a, i) == IF i <= Len(a) THEN a[i] ELSE 0

Max2(x, y) == IF x >= y THEN x ELSE y

\* B(e) with e evaluated once, before B: a quantifier binds a value, where
\* LET binds an expression that is expanded again at each of its uses
With(e, B(_)) == CHOOSE r \in {B(x) : x \in {e}} : TRUE

\* the byte sequence of a small number n >= 0, on w bytes
RECURSIVE NatBytes(_, _)
NatBytes(n, w) == IF w = 0 THEN <<>> ELSE <<n % 256>> \o NatBytes(n \div 256, w - 1)

\* a without its leading (most significant) zero bytes
RECURSIVE NNorm(_)
NNorm(a) ==
  IF Len(a) = 0 THEN a
  ELSE IF a[Len(a)] = 0 THEN NNorm(SubSeq(a, 1, Len(a) - 1)) ELSE a

NIsZero(a) == \A i \in 1..Len(a) : a[i] = 0

\* (a + b + c) on n bytes, i.e. modulo 256^n
RECURSIVE NAddR(_, _, _, _, _)
NAddR(a, b, n, i, c) ==
  IF i > n THEN <<>>
  ELSE LET s == Get(a, i) + Get(b, i) + c
       IN <<s % 256>> \o NAddR(a, b, n, i + 1, s \div 256)

NAdd(a, b) == NAddR(a, b, Max2(Len(a), Len(b)) + 1, 1, 0)

\* (a - b - c) on n bytes, i.e. modulo 256^n
RECURSIVE NSubR(_, _, _, _, _)
NSubR(a, b, n, i, c) ==
  IF i > n THEN <<>>
  ELSE LET s == Get(a, i) - Get(b, i) - c
       IN <<s % 256>> \o NSubR(a, b, n, i + 1, IF s < 0 THEN 1 ELSE 0)

\* a < b, compared from the most significant byte down
RECURSIVE NLtR(_, _, _)
NLtR(a, b, i) ==
  IF i = 0 THEN FALSE
  ELSE IF Get(a, i) # Get(b, i) THEN Get(a, i) < Get(b, i)
  ELSE NLtR(a, b, i - 1)

NLt(a, b) == NLtR(a, b, Max2(Len(a), Len(b)))
NLe(a, b) == ~NLt(b, a)
NEq(a, b) == ~NLt(a, b) /\ ~NLt(b, a)

NSub(a, b) == NSubR(a, b, Max2(Len(a), Len(b)), 1, 0)

\* a * k for one byte k, with carry c
RECURSIVE NMulByteR(_, _, _, _)
NMulByteR(a, k, i, c) ==
  IF i > Len(a) THEN <<c % 256, c \div 256>>
  ELSE LET s == a[i] * k + c
       IN <<s % 256>> \o NMulByteR(a, k, i + 1, s \div 256)

Zeros(n) == [i \in 1..n |-> 0]

Min2(x, y) == IF x <= y THEN x ELSE y

\* column k of the schoolbook product: the sum of a[i] * b[j], i + j = k + 1
RECURSIVE NMulCol(_, _, _, _, _)
NMulCol(a, b, k, i, hi) ==
  IF i > hi THEN 0 ELSE a[i] * b[k - i + 1] + NMulCol(a, b, k, i + 1, hi)

\* the bytes of a * b from byte k on, c the carry into column k
RECURSIVE NMulCols(_, _, _, _)
NMulCols(a, b, k, c) ==
  IF k > Len(a) + Len(b) THEN <<>>
  ELSE LET s == NMulCol(a, b, k, Max2(1, k - Len(b) + 1), Min2(Len(a), k)) + c
       IN <<s % 256>> \o NMulCols(a, b, k + 1, s \div 256)

NMul(a, b) ==
  With(NNorm(a), LAMBDA x :
    With(NNorm(b), LAMBDA y : NNorm(NMulCols(x, y, 1, 0))))

NBit(a, k) == (Get(a, (k \div 8) + 1) \div (2 ^ (k % 8))) % 2

\* the number of significant bits of a
RECURSIVE ByteBits(_)
ByteBits(x) == IF x = 0 THEN 0 ELSE 1 + ByteBits(x \div 2)

NBitLen(a) ==
  With(NNorm(a), LAMBDA n :
    IF Len(n) = 0 THEN 0 ELSE 8 * (Len(n) - 1) + ByteBits(n[Len(n)]))

Pow2(k) == Zeros(k \div 8) \o <<2 ^ (k % 8)>>

\* a * 2^k
NShl(a, k) == NNorm(Zeros(k \div 8) \o NMulByteR(a, 2 ^ (k % 8), 1, 0))

\* division by a small number d (d < 2^23), from the most significant byte
\* down: [q, r], q as long as a
RECURSIVE NDivSmallR(_, _, _, _)
NDivSmallR(a, d, i, r) ==
  IF i = 0 THEN [q |-> <<>>, r |-> r]
  ELSE LET cur == r * 256 + a[i]
           rest == NDivSmallR(a, d, i - 1, cur % d)
       IN [q |-> Append(rest.q, cur \div d), r |-> rest.r]

NDivSmall(a, d) == NDivSmallR(a, d, Len(a), 0)

\* floor(a / 2^k)
NShr(a, k) ==
  LET bytes == k \div 8
  IN IF bytes >= Len(a) THEN <<>>
     ELSE NNorm(NDivSmall(SubSeq(a, bytes + 1, Len(a)), 2 ^ (k % 8)).q)

\* long division, one bit of the dividend at a time from the top:
\* st = [q, r] is the quotient and the remainder of the bits taken so far
NDivBit(st, b, bit) ==
  With(NNorm(NAdd(NAdd(st.r, st.r), <<bit>>)), LAMBDA r2 :
    With(NLe(b, r2), LAMBDA ge :
      [q |-> NNorm(NAdd(NAdd(st.q, st.q), <<IF ge THEN 1 ELSE 0>>)),
       r |-> IF ge THEN NNorm(NSub(r2, b)) ELSE r2]))

\* the bits k..0 of the byte x, from bit k down
RECURSIVE NDivByte(_, _, _, _)
NDivByte(st, b, x, k) ==
  IF k < 0 THEN st
  ELSE With(NDivBit(st, b, (x \div (2 ^ k)) % 2), LAMBDA st2 :
         NDivByte(st2, b, x, k - 1))

RECURSIVE NDivR(_, _, _, _)
NDivR(a, b, i, st) ==
  IF i = 0 THEN st
  ELSE With(NDivByte(st, b, a[i], 7), LAMBDA st2 : NDivR(a, b, i - 1, st2))

\* the number of low zero bits of b, b # 0
RECURSIVE ByteTz(_)
ByteTz(x) == IF x % 2 = 1 THEN 0 ELSE 1 + ByteTz(x \div 2)
RECURSIVE NTz(_, _)
NTz(b, i) == IF b[i] = 0 THEN 8 + NTz(b, i + 1) ELSE ByteTz(b[i])

\* the value of a number of at most three bytes
Small(a) == Get(a, 1) + 256 * Get(a, 2) + 65536 * Get(a, 3)

\* [q, r] with a = q * b + r and r < b, for b # 0.  b = odd * 2^tz: when
\* odd is small, floor(a / b) = floor(floor(a / 2^tz) / odd) is one pass
NDivMod(a, b) ==
  With(NTz(b, 1), LAMBDA tz :
    With(NShr(b, tz), LAMBDA odd :
      IF Len(odd) <= 3 /\ Small(odd) < 2 ^ 23
        THEN With(NNorm(NDivSmall(NShr(a, tz), Small(odd)).q), LAMBDA q :
               [q |-> q, r |-> NNorm(NSub(a, NMul(q, b)))])
        ELSE With(NDivR(a, b, Len(a), [q |-> <<>>, r |-> <<>>]), LAMBDA st :
               [q |-> NNorm(st.q), r |-> NNorm(st.r)])))
NDiv(a, b) == NDivMod(a, b).q

\* a decimal numeral written in groups of nine digits, most significant first
RECURSIVE Dec(_)
Dec(groups) ==
  IF Len(groups) = 0 THEN <<>>
  ELSE NNorm(NAdd(NMul(Dec(SubSeq(groups, 1, Len(groups) - 1)),
                       NatBytes(1000000000, 4)),
                  NatBytes(groups[Len(groups)], 4)))

----------------------------------------------------------------------------
(* uint64_t and int64_t: 8 bytes, arithmetic modulo 2^64.                  *)

U64Of(a) == [i \in 1..8 |-> Get(a, i)]
U64(n) == NatBytes(n, 8)
U64Add(a, b) == NAddR(a, b, 8, 1, 0)
U64Sub(a, b) == NSubR(a, b, 8, 1, 0)
U64Mul(a, b) == U64Of(NMul(a, b))
U64Div(a, b) == U64Of(NDiv(a, b))
U64Lt(a, b) == NLt(a, b)
U64Le(a, b) == NLe(a, b)
U64Neg(a) == U64Sub(U64(0), a)

\* two's complement: the sign bit is the top bit of the last byte
I64IsNeg(a) == a[8] >= 128
\* a < b or a = b as int64_t
I64LtOrEqual(a, b) ==
  IF I64IsNeg(a) # I64IsNeg(b) THEN I64IsNeg(a) ELSE ~NLt(b, a)

I64Lt(a, b) ==
  IF I64IsNeg(a) # I64IsNeg(b) THEN I64IsNeg(a) ELSE NLt(a, b)
\* int64_t of a small integer n (either sign)
I64(n) == IF n >= 0 THEN U64(n) ELSE U64Neg(U64(-n))

UINT32_MAX == <<255, 255, 255, 255, 0, 0, 0, 0>>
INT64_MAX == <<255, 255, 255, 255, 255, 255, 255, 127>>

----------------------------------------------------------------------------
(* double: [m, e] is m * 2^e; m is 0 or has exactly 53 bits.  Only         *)
(* non-negative doubles arise in the library.                              *)

\* 52 stored bits and the implicit leading one
DblMantBits == 52 + 1

\* n * 2^e (plus a non-zero remainder below it when sticky) rounded to
\* nearest, ties to even
\* q = floor(n / 2^s) rounded up when the s bits dropped, rem, are more than
\* half, or half and (sticky or q odd)
DblRoundUp(q, rem, half, sticky) ==
  \/ NLt(half, rem)
  \/ /\ NEq(half, rem)
     /\ (sticky \/ NBit(q, 0) = 1)

DblRoundDrop(n, e, sticky, s) ==
  With(NShr(n, s), LAMBDA q :
    With(NNorm(NSub(n, NShl(q, s))), LAMBDA rem :
      With(IF DblRoundUp(q, rem, Pow2(s - 1), sticky)
             THEN NNorm(NAdd(q, <<1>>)) ELSE NNorm(q), LAMBDA q1 :
        IF NBitLen(q1) > DblMantBits
          THEN [m |-> NShr(q1, 1), e |-> e + s + 1]
          ELSE [m |-> q1, e |-> e + s])))

DblRound(n, e, sticky) ==
  With(NBitLen(n), LAMBDA L :
    IF L = 0 THEN [m |-> <<>>, e |-> 0]
    ELSE IF L <= DblMantBits
      THEN [m |-> NNorm(NShl(n, DblMantBits - L)), e |-> e - (DblMantBits - L)]
    ELSE DblRoundDrop(n, e, sticky, L - DblMantBits))

\* (double)x for an unsigned integer x
DblFromU64(x) == DblRound(x, 0, FALSE)

DblMul(a, b) == DblRound(NMul(a.m, b.m), a.e + b.e, FALSE)

\* a / b, b # 0: 56 more bits of quotient than the mantissa needs, the
\* remainder kept as the sticky bit
DblDiv(a, b) ==
  IF NIsZero(a.m) THEN [m |-> <<>>, e |-> 0]
  ELSE With(NDivMod(NShl(a.m, DblMantBits + 3), b.m), LAMBDA dm :
         DblRound(dm.q, a.e - (DblMantBits + 3) - b.e, ~NIsZero(dm.r)))

\* (uint64_t)d: the fraction is dropped
DblToU64(d) ==
  IF NIsZero(d.m) THEN U64(0)
  ELSE IF d.e >= 0 THEN U64Of(NShl(d.m, d.e))
  ELSE U64Of(NShr(d.m, -d.e))

\* the double nearest to num / 2^bits, for literals such as 50.5 = 101 / 2^1
DblLit(num, bits) ==
  With(DblFromU64(NNorm(U64(num))), LAMBDA d : [m |-> d.m, e |-> d.e - bits])


----------------------------------------------------------------------------
(* fbclock.h: error codes, constants, the published records.               *)

FBCLOCK_E_NO_ERROR == 0
FBCLOCK_E_SHMEM_MAP_FAILED == -1
FBCLOCK_E_SHMEM_OPEN == -2
FBCLOCK_E_PTP_READ_OFFSET == -3
FBCLOCK_E_PTP_OPEN == -4
FBCLOCK_E_NO_DATA == -5
FBCLOCK_E_WOU_TOO_BIG == -6
FBCLOCK_E_PHC_IN_THE_PAST == -7
FBCLOCK_E_CRC_MISMATCH == -8

FBCLOCK_TAI == 0
FBCLOCK_UTC == 1

\* the retry budget of both load loops (1000 in the library)
FBCLOCK_MAX_READ_TRIES == 2

NANOSECONDS_IN_SECONDS == Dec(<<1, 0>>)
FBCLOCK_POW2_16 == DblLit(65536, 0)

\* the fields of fbclock_clockdata and fbclock_clockdata_v2, in memory order
FieldsV1 ==
  << "ingress_time_ns", "error_bound_ns", "holdover_multiplier_ns",
     "clock_smearing_start_s", "clock_smearing_end_s",
     "utc_offset_pre_s", "utc_offset_post_s" >>
FieldsV2 ==
  << "ingress_time_ns", "error_bound_ns", "holdover_multiplier_ns",
     "clock_smearing_start_s", "utc_offset_pre_s", "utc_offset_post_s",
     "clockId", "phc_time_ns", "sysclock_time_ns", "coef_ppb" >>

Range(f) == {f[i] : i \in DOMAIN f}

\* a zero-filled record: a frame fresh from ftruncate, or `state = {}`
ZeroData(fields) == [f \in Range(fields) |-> U64(0)]


----------------------------------------------------------------------------
(* The TrueTime assembler and the UTC conversion (pure functions).         *)

UTC_TAI_OFFSET_NS == U64Neg(Dec(<<37, 0>>))
\* a smear step of 64 us
SmearStepOf64us == U64(64000)

SMEAR_STEP_NS == U64(65000)
SMEAR_DURATION == U64(62500)

fbclock_apply_smear(time, offset_pre_ns, offset_post_ns, smear_start_ns, smear_end_ns, multiplier) ==
  IF U64Lt(smear_end_ns, time) THEN U64Sub(time, offset_post_ns)
  ELSE IF U64Lt(time, smear_start_ns) THEN U64Sub(time, offset_pre_ns)
  ELSE IF U64Le(smear_start_ns, time) /\ U64Le(time, smear_end_ns)
    THEN U64Sub(time, U64Add(offset_pre_ns,
           U64Mul(multiplier,
                  U64Div(U64Sub(time, smear_start_ns), SMEAR_STEP_NS))))
  ELSE time

\* a conversion that always takes the published offsets and window
ApplyUtcOffsetNoFallback(state, phctime_ns) ==
  fbclock_apply_smear(
    phctime_ns,
    U64Mul(state.utc_offset_pre_s, NANOSECONDS_IN_SECONDS),
    U64Mul(state.utc_offset_post_s, NANOSECONDS_IN_SECONDS),
    U64Mul(state.clock_smearing_start_s, NANOSECONDS_IN_SECONDS),
    U64Mul(state.clock_smearing_end_s, NANOSECONDS_IN_SECONDS),
    U64Sub(state.utc_offset_post_s, state.utc_offset_pre_s))

fbclock_apply_utc_offset(state, phctime_ns) ==
  IF state.utc_offset_pre_s = U64(0) /\ state.utc_offset_post_s = U64(0)
    THEN U64Add(phctime_ns, UTC_TAI_OFFSET_NS)
  ELSE
    \* the arguments are offset_pre_ns, offset_post_ns, smear_start_ns,
    \* smear_end_ns and multiplier
    fbclock_apply_smear(
      phctime_ns,
      U64Mul(state.utc_offset_pre_s, NANOSECONDS_IN_SECONDS),
      U64Mul(state.utc_offset_post_s, NANOSECONDS_IN_SECONDS),
      U64Mul(state.clock_smearing_start_s, NANOSECONDS_IN_SECONDS),
      U64Mul(state.clock_smearing_end_s, NANOSECONDS_IN_SECONDS),
      U64Sub(state.utc_offset_post_s, state.utc_offset_pre_s))

fbclock_apply_utc_offset_v2(state, phctime_ns) ==
  IF state.utc_offset_pre_s = U64(0) /\ state.utc_offset_post_s = U64(0)
    THEN U64Add(phctime_ns, UTC_TAI_OFFSET_NS)
  ELSE
    \* the arguments are offset_pre_ns, offset_post_ns, smear_start_ns,
    \* smear_end_ns and multiplier
    fbclock_apply_smear(
      phctime_ns,
      U64Mul(state.utc_offset_pre_s, NANOSECONDS_IN_SECONDS),
      U64Mul(state.utc_offset_post_s, NANOSECONDS_IN_SECONDS),
      U64Mul(state.clock_smearing_start_s, NANOSECONDS_IN_SECONDS),
      U64Mul(U64Add(state.clock_smearing_start_s, SMEAR_DURATION),
             NANOSECONDS_IN_SECONDS),
      U64Sub(state.utc_offset_post_s, state.utc_offset_pre_s))

\* a window whose holdover product is rounded to the nearest integer
WouRounded(seconds, error_bound_ns, holdover_multiplier_ns) ==
  U64Add(error_bound_ns,
         U64Div(U64Add(DblToU64(DblMul(DblLit(2, 0),
                                       DblMul(holdover_multiplier_ns, seconds))),
                       U64(1)),
                U64(2)))

\* uint64_t h = (uint64_t)(holdover_multiplier_ns * seconds); w = error_bound_ns + h
fbclock_window_of_uncertainty(seconds, error_bound_ns, holdover_multiplier_ns) ==
  With(DblToU64(DblMul(holdover_multiplier_ns, seconds)), LAMBDA h :
    U64Add(error_bound_ns, h))

\* the elapsed time cut to whole seconds
ElapsedWholeSeconds(phctime_ns, ingress_time_ns) ==
  DblFromU64(U64Div(U64Sub(phctime_ns, ingress_time_ns), NANOSECONDS_IN_SECONDS))

\* the seconds since the last SYNC, as the double both assemblers compute
ElapsedSeconds(phctime_ns, ingress_time_ns) ==
  DblDiv(DblFromU64(U64Sub(phctime_ns, ingress_time_ns)),
         DblFromU64(NANOSECONDS_IN_SECONDS))

\* an assembler that counts the elapsed seconds after the UTC conversion
CalculateTimeElapsedFromUtc(error_bound_ns, h_value_ns, state, phctime_ns, truetime, time_standard) ==
  IF I64Lt(phctime_ns, state.ingress_time_ns)
    THEN [rc |-> FBCLOCK_E_PHC_IN_THE_PAST, truetime |-> truetime]
  ELSE
    With(IF time_standard = FBCLOCK_UTC
           THEN fbclock_apply_utc_offset(state, phctime_ns)
           ELSE phctime_ns, LAMBDA center :
      With(fbclock_window_of_uncertainty(
             ElapsedSeconds(center, state.ingress_time_ns),
             error_bound_ns, h_value_ns),
           LAMBDA wou_ns :
        [rc |-> FBCLOCK_E_NO_ERROR,
         truetime |-> [earliest_ns |-> U64Sub(center, wou_ns),
                       latest_ns |-> U64Add(center, wou_ns)]]))

\* [rc, truetime]: truetime is the caller's when the call fails
fbclock_calculate_time(error_bound_ns, h_value_ns, state, phctime_ns, truetime, time_standard) ==
  IF I64Lt(phctime_ns, state.ingress_time_ns)
    THEN [rc |-> FBCLOCK_E_PHC_IN_THE_PAST, truetime |-> truetime]
  ELSE
    With(ElapsedSeconds(phctime_ns, state.ingress_time_ns), LAMBDA seconds :
      With(IF time_standard = FBCLOCK_UTC
             THEN fbclock_apply_utc_offset(state, phctime_ns)
             ELSE phctime_ns, LAMBDA center :
        With(fbclock_window_of_uncertainty(seconds, error_bound_ns, h_value_ns),
             LAMBDA wou_ns :
          [rc |-> FBCLOCK_E_NO_ERROR,
           truetime |-> [earliest_ns |-> U64Sub(center, wou_ns),
                         latest_ns |-> U64Add(center, wou_ns)]])))

\* an assembler that counts the elapsed seconds to the extrapolated PHC time
CalculateTimeV2HoldoverFromNow(error_bound_ns, h_value_ns, state, sysclock_time_now_ns, truetime, time_standard) ==
  IF I64Lt(state.phc_time_ns, state.ingress_time_ns)
    THEN [rc |-> FBCLOCK_E_PHC_IN_THE_PAST, truetime |-> truetime]
  ELSE
    With(U64Sub(sysclock_time_now_ns, state.sysclock_time_ns), LAMBDA diff_ns :
      With(U64Add(state.phc_time_ns,
                  U64Add(diff_ns, U64Div(U64Mul(diff_ns, state.coef_ppb),
                                         NANOSECONDS_IN_SECONDS))),
           LAMBDA phc_time_ns :
        With(IF time_standard = FBCLOCK_UTC
               THEN fbclock_apply_utc_offset_v2(state, phc_time_ns)
               ELSE phc_time_ns, LAMBDA center :
          With(fbclock_window_of_uncertainty(
                 ElapsedSeconds(phc_time_ns, state.ingress_time_ns),
                 error_bound_ns, h_value_ns),
               LAMBDA wou_ns :
            [rc |-> FBCLOCK_E_NO_ERROR,
             truetime |-> [earliest_ns |-> U64Sub(center, wou_ns),
                           latest_ns |-> U64Add(center, wou_ns)]]))))

fbclock_calculate_time_v2(error_bound_ns, h_value_ns, state, sysclock_time_now_ns, truetime, time_standard) ==
  IF I64Lt(state.phc_time_ns, state.ingress_time_ns)
    THEN [rc |-> FBCLOCK_E_PHC_IN_THE_PAST, truetime |-> truetime]
  ELSE
    With(ElapsedSeconds(state.phc_time_ns, state.ingress_time_ns), LAMBDA seconds :
      With(U64Sub(sysclock_time_now_ns, state.sysclock_time_ns), LAMBDA diff_ns :
        \* the product is int64_t, the divisor unsigned long long: the
        \* division is an unsigned one
        With(U64Add(state.phc_time_ns,
                    U64Add(diff_ns, U64Div(U64Mul(diff_ns, state.coef_ppb),
                                           NANOSECONDS_IN_SECONDS))),
             LAMBDA phc_time_ns :
          With(IF time_standard = FBCLOCK_UTC
                 THEN fbclock_apply_utc_offset_v2(state, phc_time_ns)
                 ELSE phc_time_ns, LAMBDA center :
            With(fbclock_window_of_uncertainty(seconds, error_bound_ns, h_value_ns),
                 LAMBDA wou_ns :
              [rc |-> FBCLOCK_E_NO_ERROR,
               truetime |-> [earliest_ns |-> U64Sub(center, wou_ns),
                             latest_ns |-> U64Add(center, wou_ns)]])))))

----------------------------------------------------------------------------
(* fbclock_crc64 and the checksum of a v1 record.                          *)

RECURSIVE BitXor(_, _, _)
BitXor(a, b, n) ==
  IF n = 0 THEN 0 ELSE ((a + b) % 2) + 2 * BitXor(a \div 2, b \div 2, n - 1)

\* a ^ b on four-bit values, tabulated: entry [a + 1][b + 1]
RECURSIVE NibbleRow(_, _)
NibbleRow(a, b) ==
  IF b < 0 THEN <<>> ELSE Append(NibbleRow(a, b - 1), BitXor(a, b, 4))
RECURSIVE NibbleRows(_)
NibbleRows(a) ==
  IF a < 0 THEN <<>> ELSE Append(NibbleRows(a - 1), NibbleRow(a, 15))

NibbleXor == NibbleRows(15)

NibblesXor(a, b) ==
  NibbleXor[(a % 16) + 1][(b % 16) + 1]
    + 16 * NibbleXor[(a \div 16) + 1][(b \div 16) + 1]

\* a ^ b on bytes, tabulated: entry [a + 1][b + 1]
RECURSIVE ByteXorRow(_, _, _)
ByteXorRow(a, lo, hi) ==
  IF lo = hi THEN <<NibblesXor(a, lo)>>
  ELSE LET mid == (lo + hi) \div 2
       IN ByteXorRow(a, lo, mid) \o ByteXorRow(a, mid + 1, hi)
RECURSIVE ByteXorRows(_, _)
ByteXorRows(lo, hi) ==
  IF lo = hi THEN <<ByteXorRow(lo, 0, 255)>>
  ELSE LET mid == (lo + hi) \div 2
       IN ByteXorRows(lo, mid) \o ByteXorRows(mid + 1, hi)

ByteXorTable == ByteXorRows(0, 255)

ByteXor(a, b) == ByteXorTable[a + 1][b + 1]

\* a ^ b on two 64-bit values
U64Xor(a, b) ==
  << ByteXor(a[1], b[1]), ByteXor(a[2], b[2]), ByteXor(a[3], b[3]),
     ByteXor(a[4], b[4]), ByteXor(a[5], b[5]), ByteXor(a[6], b[6]),
     ByteXor(a[7], b[7]), ByteXor(a[8], b[8]) >>

\* the CRC32C polynomial, reflected (0x82F63B78), as four bytes
Crc32cPoly == <<120, 59, 246, 130>>

Xor4(a, b) ==
  << ByteXor(a[1], b[1]), ByteXor(a[2], b[2]),
     ByteXor(a[3], b[3]), ByteXor(a[4], b[4]) >>

\* a 32-bit value shifted right by one bit
Shr1(c) ==
  << (c[1] \div 2) + 128 * (c[2] % 2), (c[2] \div 2) + 128 * (c[3] % 2),
     (c[3] \div 2) + 128 * (c[4] % 2), c[4] \div 2 >>

RECURSIVE Crc32cBits(_, _)
Crc32cBits(c, n) ==
  IF n = 0 THEN c
  ELSE With(IF c[1] % 2 = 1 THEN Xor4(Shr1(c), Crc32cPoly) ELSE Shr1(c),
            LAMBDA c2 : Crc32cBits(c2, n - 1))

\* the byte table of CRC32C, bytes lo..hi: entry i + 1 is for byte i
RECURSIVE Crc32cEntries(_, _)
Crc32cEntries(lo, hi) ==
  IF lo = hi THEN <<Crc32cBits(<<lo, 0, 0, 0>>, 8)>>
  ELSE LET mid == (lo + hi) \div 2
       IN Crc32cEntries(lo, mid) \o Crc32cEntries(mid + 1, hi)

Crc32cTable == Crc32cEntries(0, 255)

\* one byte through the crc32 instruction
Crc32cByte(c, x) ==
  With(Crc32cTable[ByteXor(c[1], x) + 1], LAMBDA t :
    <<ByteXor(t[1], c[2]), ByteXor(t[2], c[3]), ByteXor(t[3], c[4]), t[4]>>)

RECURSIVE Crc32cBytes(_, _, _)
Crc32cBytes(c, v, i) ==
  IF i > Len(v) THEN c
  ELSE With(Crc32cByte(c, v[i]), LAMBDA c2 : Crc32cBytes(c2, v, i + 1))

\* __builtin_ia32_crc32di(crc, v): CRC32C of the eight bytes of v, from the
\* low 32 bits of crc; the result is zero-extended
Crc32di(crc, v) == Crc32cBytes(SubSeq(crc, 1, 4), v, 1) \o <<0, 0, 0, 0>>

\* the build's fbclock_crc64: the crc32 instruction on x86_64, else a ^ b
fbclock_crc64(build, a, b) ==
  IF build = "x86_64" THEN Crc32di(a, b) ELSE U64Xor(a, b)

fbclock_clockdata_crc(build, value) ==
  With(fbclock_crc64(build, UINT32_MAX, value.ingress_time_ns), LAMBDA c1 :
    With(fbclock_crc64(build, c1, value.error_bound_ns), LAMBDA c2 :
      With(fbclock_crc64(build, c2, value.holdover_multiplier_ns), LAMBDA c3 :
        U64Xor(c3, UINT32_MAX))))

----------------------------------------------------------------------------
(* Bounds of the model and the payloads the daemon publishes.              *)

\* how many store calls the writer makes
MaxStores == 2
\* the reading handles: a handle only reads the frame, so readers do not
\* affect what the daemon or another reader sees
Readers == {1}

CLOCK_MONOTONIC_RAW == U64(4)

\* writer_thread_v2 of the test: error_bound = 2 * ingress,
\* holdover_multiplier = 3 * ingress, phc - sysclock = 37 s
TestPhcTime == Dec(<<1, 748164346, 441310791>>)
TestSysclockTime == Dec(<<1, 748164309, 441310791>>)

TestDataV2(k) ==
  [ ingress_time_ns |-> U64(1 + 1000 * k),
    error_bound_ns |-> U64(2 * (1 + 1000 * k)),
    holdover_multiplier_ns |-> U64(3 * (1 + 1000 * k)),
    clock_smearing_start_s |-> U64(0),
    utc_offset_pre_s |-> U64(0),
    utc_offset_post_s |-> U64(0),
    clockId |-> CLOCK_MONOTONIC_RAW,
    phc_time_ns |-> U64Add(TestPhcTime, U64(10000 * k)),
    sysclock_time_ns |-> U64Add(TestSysclockTime, U64(10000 * k)),
    coef_ppb |-> U64(0) ]

\* what the daemon may pass to its k-th store call (k from 1): the test's
\* record, or at first a record not yet filled in (a required field still
\* zero), later the "too big" sentinel
PublishedV2(k) ==
  IF k = 1 THEN {TestDataV2(1), [TestDataV2(1) EXCEPT !.phc_time_ns = U64(0)]}
  ELSE {TestDataV2(k), [TestDataV2(k) EXCEPT !.error_bound_ns = UINT32_MAX]}

PayloadsV2 == UNION {PublishedV2(k) : k \in 1..MaxStores}

\* the value of the sequence word two publications before it wraps
SeqBeforeWrap == U64Sub(U64(0), U64(2))

VARIABLES
  arch,      \* the build: "x86_64" (crc32 instruction) or "generic" (xor)
  workload,  \* what the daemon publishes: "test" (the records of the test's
             \* writer thread), "daemon" (records with unset fields too) or
             \* "leap" (records that differ in the leap second only)
  shmp,      \* the v1 frame: [crc, data]
  shmp_v2,   \* the v2 frame: [seq, data]
  writer,    \* the daemon inside a store call: [pc, data, pos, word, rc]
  nstores,   \* store calls that mapped the frame so far
  reader,    \* per handle, the library inside a gettime call
  call       \* a direct call of one of the pure functions: [fn, pc, ...],
             \* or the threads that share a handle: [fn, pc, observed, thr]

vars == <<arch, workload, shmp, shmp_v2, writer, nstores, reader, call>>

\* no direct call is under way
NoCall == [fn |-> "none", pc |-> "done"]

WriterIdle == [pc |-> "idle", data |-> <<>>, pos |-> 0, word |-> U64(0),
               rc |-> FBCLOCK_E_NO_ERROR]

\* struct phc_time_res before the sampler has filled it in
NoSample == [rc |-> 0, ts |-> U64(0), delay |-> U64(0), sampled |-> FALSE]

\* a handle between calls, before its first call.  seq, seq2 are the two
\* sequence loads of a v2 attempt, crc, our_crc the two checksums of a v1
\* attempt; matched (the last attempt's comparison came out equal) and
\* alone (no store call has begun since this call began with the writer
\* idle) are kept for the properties only
ReaderIdle(fields) ==
  [ pc |-> "idle", i |-> 0, pos |-> 0, seq |-> U64(0), seq2 |-> <<>>,
    crc |-> U64(0), our_crc |-> U64(0),
    state |-> ZeroData(fields), matched |-> FALSE, alone |-> FALSE,
    load_rc |-> FBCLOCK_E_NO_ERROR,
    rc |-> FBCLOCK_E_NO_ERROR, calls |-> 0,
    time_standard |-> FBCLOCK_TAI,
    min_phc_delay |-> INT64_MAX, res |-> NoSample,
    truetime |-> [earliest_ns |-> U64(0), latest_ns |-> U64(0)] ]

\* a store call begins: the calls in progress are no longer alone
Disturbed == [r \in Readers |-> [reader[r] EXCEPT !.alone = FALSE]]

----------------------------------------------------------------------------
(* fbclock_clockdata_store_data_v2, one shared-memory access per step.     *)

\* mmap fails: nothing is written
StoreV2MapFailed ==
  /\ writer.pc = "idle" /\ nstores < MaxStores
  /\ writer' = [WriterIdle EXCEPT !.rc = FBCLOCK_E_SHMEM_MAP_FAILED]
  /\ UNCHANGED <<arch, workload, shmp, shmp_v2, nstores, reader, call>>

\* uint64_t seq = atomic_load(&shmp->seq);
StoreV2Load(d) ==
  /\ writer.pc = "idle" /\ nstores < MaxStores
  /\ writer' = [pc |-> "odd", data |-> d, pos |-> 1, word |-> shmp_v2.seq,
                rc |-> FBCLOCK_E_NO_ERROR]
  /\ nstores' = nstores + 1
  /\ reader' = Disturbed
  /\ UNCHANGED <<arch, workload, shmp, shmp_v2, call>>

\* seq++; atomic_store(&shmp->seq, seq);
StoreV2Odd ==
  /\ writer.pc = "odd"
  /\ LET seq == U64Add(writer.word, U64(1))
     IN /\ shmp_v2' = [shmp_v2 EXCEPT !.seq = seq]
        /\ writer' = [writer EXCEPT !.pc = "copy", !.word = seq]
  /\ UNCHANGED <<arch, workload, shmp, nstores, reader, call>>

\* memcpy(&shmp->data, data, ...), one field at a time
StoreV2Copy ==
  /\ writer.pc = "copy"
  /\ LET f == FieldsV2[writer.pos]
     IN shmp_v2' = [shmp_v2 EXCEPT !.data[f] = writer.data[f]]
  /\ writer' = IF writer.pos = Len(FieldsV2)
                 THEN [writer EXCEPT !.pc = "even"]
                 ELSE [writer EXCEPT !.pos = @ + 1]
  /\ UNCHANGED <<arch, workload, shmp, nstores, reader, call>>

\* a closing increment that does not skip the reserved value
SeqPlusOne(word) == U64Add(word, U64(1))

\* seq++; if (!seq) seq += 2; atomic_store(&shmp->seq, seq); return
StoreV2SeqAfter(word) ==
  LET seq == U64Add(word, U64(1))
  IN IF seq = U64(0) THEN U64Add(seq, U64(2)) ELSE seq

StoreV2Even ==
  /\ writer.pc = "even"
  /\ shmp_v2' = [shmp_v2 EXCEPT !.seq = StoreV2SeqAfter(writer.word)]
  /\ writer' = [writer EXCEPT !.pc = "idle", !.pos = 0]
  /\ UNCHANGED <<arch, workload, shmp, nstores, reader, call>>

fbclock_clockdata_store_data_v2 ==
  \/ StoreV2MapFailed
  \/ writer.pc = "idle" /\ \E d \in PublishedV2(nstores + 1) : StoreV2Load(d)
  \/ StoreV2Odd
  \/ StoreV2Copy
  \/ StoreV2Even


----------------------------------------------------------------------------
(* fbclock_gettime / fbclock_gettime_utc on a v2 handle:                   *)
(* fbclock_gettime_tz_v2 with fbclock_clockdata_load_data_v2 inside.       *)

\* what clock_gettime(state.clockId) may report, in nanoseconds
SysclockNow == { Dec(<<1, 748164309, 441330791>>) }

\* fbclock_gettime or fbclock_gettime_utc begins: the caller passes a zeroed
\* truetime (as fbclock-bin does), fbclock_clockdata_v2 state = {}; and
\* the first attempt.  Which of the two it is (time_standard) is read only
\* once the load has returned, and is drawn there
GettimeV2Begin(r) ==
  /\ reader[r].pc = "idle"
  /\ reader' = [reader EXCEPT ![r] =
       [ReaderIdle(FieldsV2) EXCEPT !.pc = "seq1", !.calls = 1,
                 !.alone = (writer.pc = "idle"),
                 !.min_phc_delay = reader[r].min_phc_delay]]
  /\ UNCHANGED <<arch, workload, shmp, shmp_v2, writer, nstores, call>>

\* a loop header that does not count the attempt
RetryUncounted(rd) == [rd EXCEPT !.pc = "seq1"]

\* the loop header: one more attempt, or the budget is spent and
\* fbclock_clockdata_load_data_v2 returns FBCLOCK_E_CRC_MISMATCH
NextAttemptV2(rd) ==
  IF rd.i + 1 < FBCLOCK_MAX_READ_TRIES
    THEN [rd EXCEPT !.pc = "seq1", !.i = @ + 1]
    ELSE [rd EXCEPT !.pc = "loaded", !.i = @ + 1,
                    !.load_rc = FBCLOCK_E_CRC_MISMATCH]

\* uint64_t seq = atomic_load(&shmp->seq); zero or odd: continue
LoadV2Seq(r) ==
  /\ reader[r].pc = "seq1"
  /\ LET seq == shmp_v2.seq
         rd == [reader[r] EXCEPT !.seq = seq, !.seq2 = <<>>, !.matched = FALSE]
     IN reader' = [reader EXCEPT ![r] =
          IF seq = U64(0) THEN NextAttemptV2(rd)
          ELSE IF seq[1] % 2 = 1 THEN NextAttemptV2(rd)
          ELSE [rd EXCEPT !.pc = "copy", !.pos = 1]]
  /\ UNCHANGED <<arch, workload, shmp, shmp_v2, writer, nstores, call>>

\* a copy that stops short of sysclock_time_ns
LoadV2CopyShort(r) ==
  /\ reader[r].pc = "copy"
  /\ LET f == FieldsV2[reader[r].pos]
     IN reader' = [reader EXCEPT ![r] =
          [@ EXCEPT !.state[f] = IF f = "sysclock_time_ns" THEN @ ELSE shmp_v2.data[f],
                    !.pc = IF reader[r].pos = Len(FieldsV2) THEN "seq2" ELSE "copy",
                    !.pos = IF reader[r].pos = Len(FieldsV2) THEN 0 ELSE @ + 1]]
  /\ UNCHANGED <<arch, workload, shmp, shmp_v2, writer, nstores, call>>

\* memcpy(data, &shmp->data, ...), one field at a time
LoadV2Copy(r) ==
  /\ reader[r].pc = "copy"
  /\ LET f == FieldsV2[reader[r].pos]
     IN reader' = [reader EXCEPT ![r] =
          [@ EXCEPT !.state[f] = shmp_v2.data[f],
                    !.pc = IF reader[r].pos = Len(FieldsV2) THEN "seq2" ELSE "copy",
                    !.pos = IF reader[r].pos = Len(FieldsV2) THEN 0 ELSE @ + 1]]
  /\ UNCHANGED <<arch, workload, shmp, shmp_v2, writer, nstores, call>>

\* a reader that does not compare the two sequence loads
AcceptAnyV2(seq, seq2) == TRUE

\* if (seq == atomic_load(&shmp->seq)) return FBCLOCK_E_NO_ERROR;
LoadV2Accepts(seq, seq2) == seq = seq2

LoadV2Check(r) ==
  /\ reader[r].pc = "seq2"
  /\ LET rd == [reader[r] EXCEPT !.seq2 = shmp_v2.seq,
                                 !.matched = (shmp_v2.seq = reader[r].seq)]
     IN reader' = [reader EXCEPT ![r] =
          IF LoadV2Accepts(rd.seq, rd.seq2)
            THEN [rd EXCEPT !.pc = "loaded", !.load_rc = FBCLOCK_E_NO_ERROR]
            ELSE NextAttemptV2(rd)]
  /\ UNCHANGED <<arch, workload, shmp, shmp_v2, writer, nstores, call>>

fbclock_clockdata_load_data_v2(r) ==
  \/ LoadV2Seq(r)
  \/ LoadV2Copy(r)
  \/ LoadV2Check(r)

\* a validation that leaves out the phc_time_ns / sysclock_time_ns test
GettimeV2NoPhcTest(rcode, state, truetime, time_standard, clock) ==
  IF rcode # FBCLOCK_E_NO_ERROR THEN [rc |-> rcode, truetime |-> truetime]
  ELSE IF state.error_bound_ns = U64(0) \/ state.ingress_time_ns = U64(0)
    THEN [rc |-> FBCLOCK_E_NO_DATA, truetime |-> truetime]
  ELSE IF ~clock.ok
    THEN [rc |-> FBCLOCK_E_PTP_READ_OFFSET, truetime |-> truetime]
  ELSE fbclock_calculate_time_v2(state.error_bound_ns, DblFromU64(U64(0)), state,
                                 clock.now, truetime, time_standard)

\* fbclock_gettime_tz_v2 after the load: [rc, truetime].  clock is what
\* clock_gettime gives: [ok, now]
\* a fbclock_gettime_tz_v2 that clears the caller's truetime when it fails
GettimeV2ClearsOnError(rcode, state, truetime, time_standard, clock) ==
  IF rcode # FBCLOCK_E_NO_ERROR
       \/ state.error_bound_ns = U64(0) \/ state.ingress_time_ns = U64(0)
       \/ state.phc_time_ns = U64(0) \/ state.sysclock_time_ns = U64(0)
       \/ state.error_bound_ns = UINT32_MAX
       \/ state.holdover_multiplier_ns = UINT32_MAX
       \/ ~clock.ok
       \/ I64Lt(state.phc_time_ns, state.ingress_time_ns)
    THEN [rc |-> IF rcode # FBCLOCK_E_NO_ERROR THEN rcode ELSE FBCLOCK_E_NO_DATA,
          truetime |-> [earliest_ns |-> U64(0), latest_ns |-> U64(0)]]
    ELSE fbclock_calculate_time_v2(
           state.error_bound_ns,
           DblDiv(DblFromU64(state.holdover_multiplier_ns), FBCLOCK_POW2_16),
           state, clock.now, truetime, time_standard)

fbclock_gettime_tz_v2(rcode, state, truetime, time_standard, clock) ==
  IF rcode # FBCLOCK_E_NO_ERROR THEN [rc |-> rcode, truetime |-> truetime]
  ELSE IF state.error_bound_ns = U64(0) \/ state.ingress_time_ns = U64(0)
    THEN [rc |-> FBCLOCK_E_NO_DATA, truetime |-> truetime]
  ELSE IF state.phc_time_ns = U64(0) \/ state.sysclock_time_ns = U64(0)
    THEN [rc |-> FBCLOCK_E_NO_DATA, truetime |-> truetime]
  ELSE IF state.error_bound_ns = UINT32_MAX \/ state.holdover_multiplier_ns = UINT32_MAX
    THEN [rc |-> FBCLOCK_E_WOU_TOO_BIG, truetime |-> truetime]
  ELSE IF ~clock.ok
    THEN [rc |-> FBCLOCK_E_PTP_READ_OFFSET, truetime |-> truetime]
  ELSE
    LET error_bound == state.error_bound_ns
        h_value == DblDiv(DblFromU64(state.holdover_multiplier_ns), FBCLOCK_POW2_16)
    IN fbclock_calculate_time_v2(error_bound, h_value, state, clock.now,
                                 truetime, time_standard)

\* the rest of the call, once the load has returned
GettimeV2Return(r, time_standard, clock) ==
  /\ reader[r].pc = "loaded"
  /\ \E res \in {fbclock_gettime_tz_v2(reader[r].load_rc, reader[r].state,
                                        reader[r].truetime, time_standard,
                                        clock)} :
       reader' = [reader EXCEPT ![r] =
         [@ EXCEPT !.pc = "idle", !.i = 0, !.seq = U64(0), !.seq2 = <<>>,
                   !.time_standard = time_standard,
                   !.rc = res.rc, !.truetime = res.truetime]]
  /\ UNCHANGED <<arch, workload, shmp, shmp_v2, writer, nstores, call>>

ClockOutcomes ==
  {[ok |-> FALSE, now |-> U64(0)]} \cup {[ok |-> TRUE, now |-> t] : t \in SysclockNow}

\* the frame before the daemon's first store, or late in its life
InitFramesV2 ==
  { [seq |-> U64(0), data |-> ZeroData(FieldsV2)],
    [seq |-> SeqBeforeWrap, data |-> TestDataV2(0)] }

\* every record a store call was ever given
CompletePayloadsV2 == PayloadsV2 \cup {TestDataV2(0)}

InitV2 ==
  /\ arch = "x86_64"
  /\ workload = "daemon"
  /\ shmp = [crc |-> U64(0), data |-> ZeroData(FieldsV1)]
  /\ shmp_v2 \in InitFramesV2
  /\ writer = WriterIdle
  /\ nstores = 0
  /\ reader = [r \in Readers |-> ReaderIdle(FieldsV2)]
  /\ call = NoCall

NextV2 ==
  \/ fbclock_clockdata_store_data_v2
  \/ \E r \in Readers :
       \/ GettimeV2Begin(r)
       \/ fbclock_clockdata_load_data_v2(r)
       \/ \E ts \in {FBCLOCK_TAI, FBCLOCK_UTC}, clock \in ClockOutcomes :
            GettimeV2Return(r, ts, clock)

SpecV2 == InitV2 /\ [][NextV2]_vars

----------------------------------------------------------------------------
(* The v2 frame when the daemon dies inside a store call and is started    *)
(* again.                                                                  *)

\* the daemon is killed after the first atomic_store of a store call and
\* before the last: the frame stays as it is, the next daemon process has
\* yet to call.  call remembers that it happened, and at which store
StoreV2Killed ==
  /\ writer.pc \in {"copy", "even"}
  /\ call = NoCall
  /\ writer' = WriterIdle
  /\ call' = [fn |-> "kill", pc |-> "done", stores |-> nstores]
  /\ UNCHANGED <<arch, workload, shmp, shmp_v2, nstores, reader>>

NextV2Killed ==
  \/ NextV2
  \/ StoreV2Killed

SpecV2Killed == InitV2 /\ [][NextV2Killed]_vars

----------------------------------------------------------------------------

(* Properties of the v2 protocol.                                          *)

SeqIsOdd(seq) == seq[1] % 2 = 1

\* C1: every load that returns FBCLOCK_E_NO_ERROR delivers, field for field,
\* the record given to one single store call: no accepted snapshot mixes
\* two publications.
C1_NoTornReadV2 ==
  \A r \in Readers :
    (reader[r].pc = "loaded" /\ reader[r].load_rc = FBCLOCK_E_NO_ERROR)
      => reader[r].state \in CompletePayloadsV2

\* a load that collided with the writer, retried, and then accepted the
\* record of the last store
C1_WitnessRetriedThenAccepted ==
  \E r \in Readers :
    /\ reader[r].pc = "loaded" /\ reader[r].load_rc = FBCLOCK_E_NO_ERROR
    /\ reader[r].i >= 1
    /\ reader[r].state \in PublishedV2(MaxStores)

\* one of the four fields fbclock_gettime_tz_v2 requires is zero
ZeroRequiredV2(d) ==
  \/ d.ingress_time_ns = U64(0) \/ d.error_bound_ns = U64(0)
  \/ d.phc_time_ns = U64(0) \/ d.sysclock_time_ns = U64(0)

ReturnedV2(r) == reader[r].pc = "idle" /\ reader[r].calls = 1

\* C5 (as amended): a call whose load accepted a snapshot with ingress_time_ns,
\* error_bound_ns, phc_time_ns or sysclock_time_ns zero returns
\* FBCLOCK_E_NO_DATA; on a frame no store has ever written (sequence word 0)
\* the load accepts nothing and the call returns FBCLOCK_E_CRC_MISMATCH.
C5_NoDataOnAcceptedZeroFields ==
  \A r \in Readers :
    ReturnedV2(r) =>
      /\ (reader[r].load_rc = FBCLOCK_E_NO_ERROR /\ ZeroRequiredV2(reader[r].state))
           => reader[r].rc = FBCLOCK_E_NO_DATA
      /\ shmp_v2.seq = U64(0) => reader[r].rc = FBCLOCK_E_CRC_MISMATCH

\* the daemon published a record with phc_time_ns still zero; the call
\* loaded it and returned FBCLOCK_E_NO_DATA
C5_WitnessNoData ==
  \E r \in Readers :
    /\ ReturnedV2(r) /\ reader[r].load_rc = FBCLOCK_E_NO_ERROR
    /\ reader[r].state.phc_time_ns = U64(0)
    /\ reader[r].state.ingress_time_ns # U64(0)
    /\ reader[r].rc = FBCLOCK_E_NO_DATA

\* C5 as stated: the call returns FBCLOCK_E_NO_DATA whenever the frame's
\* payload has a zero required field, the all-zero frame no store has
\* ever written included.
C5_AsStated ==
  \A r \in Readers :
    (ReturnedV2(r) /\ nstores = 0 /\ ZeroRequiredV2(shmp_v2.data))
      => reader[r].rc = FBCLOCK_E_NO_DATA

\* the steps fbclock_clockdata_load_data_v2 has left at most
LoadV2Remaining(rd) ==
  IF rd.pc \in {"loaded", "idle"} THEN 0
  ELSE (FBCLOCK_MAX_READ_TRIES - rd.i) * (Len(FieldsV2) + 2)
         - (IF rd.pc = "seq1" THEN 0
            ELSE IF rd.pc = "copy" THEN rd.pos
            ELSE Len(FieldsV2) + 1)

C6_Returns ==
  \A r \in Readers :
    /\ reader[r].i <= FBCLOCK_MAX_READ_TRIES
    /\ reader[r].pc = "loaded" =>
         /\ reader[r].load_rc \in {FBCLOCK_E_NO_ERROR, FBCLOCK_E_CRC_MISMATCH}
         /\ reader[r].load_rc = FBCLOCK_E_CRC_MISMATCH <=> ~reader[r].matched
         /\ reader[r].load_rc = FBCLOCK_E_CRC_MISMATCH
              => reader[r].i = FBCLOCK_MAX_READ_TRIES
    /\ (ReturnedV2(r) /\ reader[r].load_rc = FBCLOCK_E_CRC_MISMATCH)
         => reader[r].rc = FBCLOCK_E_CRC_MISMATCH

C6_Progress ==
  \A r \in Readers :
    (/\ reader[r].pc \in {"seq1", "copy", "seq2"}
     /\ <<reader'[r].pc, reader'[r].pos, reader'[r].i>>
          # <<reader[r].pc, reader[r].pos, reader[r].i>>)
      => /\ LoadV2Remaining(reader'[r]) < LoadV2Remaining(reader[r])
         /\ LoadV2Remaining(reader'[r]) >= 0

\* C6: fbclock_clockdata_load_data_v2 makes at most FBCLOCK_MAX_READ_TRIES
\* attempts and every step of it brings its return nearer, whatever the
\* writer does; it returns FBCLOCK_E_CRC_MISMATCH exactly when no attempt
\* read the same even, non-zero sequence value before and after the copy,
\* and the gettime call then returns FBCLOCK_E_CRC_MISMATCH.
C6_LoadV2Terminates == []C6_Returns /\ [][C6_Progress]_vars

\* the writer stalled inside its copy (sequence word odd); the load spent
\* its budget, its last attempt reading an odd word, and returned
\* FBCLOCK_E_CRC_MISMATCH
C6_WitnessExhausted ==
  \E r \in Readers :
    /\ reader[r].pc = "loaded" /\ reader[r].load_rc = FBCLOCK_E_CRC_MISMATCH
    /\ reader[r].i = FBCLOCK_MAX_READ_TRIES /\ SeqIsOdd(reader[r].seq)
    /\ writer.pc = "copy" /\ SeqIsOdd(shmp_v2.seq)

\* C8: from an even sequence word, the word is odd for as long as a store
\* copies the payload, even and non-zero once a store that published has
\* returned; a closing increment that wraps to 0 stores 2.
C8_WriterDiscipline ==
  /\ writer.pc \in {"copy", "even"} => SeqIsOdd(shmp_v2.seq)
  /\ writer.pc \in {"idle", "odd"} => ~SeqIsOdd(shmp_v2.seq)
  /\ (writer.pc = "idle" /\ writer.rc = FBCLOCK_E_NO_ERROR /\ nstores > 0)
       => /\ shmp_v2.seq # U64(0)
          /\ shmp_v2.data = writer.data
          /\ writer.word = U64Sub(U64(0), U64(1)) => shmp_v2.seq = U64(2)

\* a store whose closing increment wrapped has returned: the word is 2
C8_WitnessWrapSkipsZero ==
  /\ writer.pc = "idle" /\ writer.rc = FBCLOCK_E_NO_ERROR /\ nstores > 0
  /\ writer.word = U64Sub(U64(0), U64(1))
  /\ shmp_v2.seq = U64(2)

----------------------------------------------------------------------------
(* The v1 frame: what the daemon publishes, fbclock_clockdata_store_data.  *)

\* writer_thread of the test: error_bound = 2 * ingress,
\* holdover_multiplier = 3 * ingress, the rest zero
TestDataV1(k) ==
  [ZeroData(FieldsV1) EXCEPT !.ingress_time_ns = U64(k),
                             !.error_bound_ns = U64(2 * k),
                             !.holdover_multiplier_ns = U64(3 * k)]

DaemonIngress == Dec(<<1, 647269082, 943150996>>)
SmearStart2017 == Dec(<<1, 483228836>>)
SmearEnd2017 == Dec(<<1, 483293836>>)

\* a record of a synchronised daemon: h = 50.5 ns/s, and the leap second
\* of 2017 (TAI - UTC from 36 s to 37 s) with the smear window of the tests,
\* 1483228836 s to 1483293836 s TAI
DaemonDataV1(k) ==
  [ ingress_time_ns |-> U64Add(DaemonIngress, U64(1000 * k)),
    error_bound_ns |-> U64(172 + k),
    holdover_multiplier_ns |-> U64(3309568),
    clock_smearing_start_s |-> SmearStart2017,
    clock_smearing_end_s |-> SmearEnd2017,
    utc_offset_pre_s |-> U64(36),
    utc_offset_post_s |-> U64(37) ]

\* a daemon whose synchronisation data stay what they are while tzdata gets
\* a new leap second: first the leap second of 2015 (TAI - UTC from 35 s to
\* 36 s, smeared from 1435752035 s to 1435817035 s TAI), then that of 2017
LeapDataV1(k) ==
  IF k = 1
    THEN [DaemonDataV1(0) EXCEPT
            !.clock_smearing_start_s = U64Of(Dec(<<1, 435752035>>)),
            !.clock_smearing_end_s = U64Of(Dec(<<1, 435817035>>)),
            !.utc_offset_pre_s = U64(35),
            !.utc_offset_post_s = U64(36)]
    ELSE [DaemonDataV1(0) EXCEPT
            !.clock_smearing_start_s = U64Of(SmearStart2017),
            !.clock_smearing_end_s = U64Of(SmearEnd2017)]

\* what the daemon may pass to its k-th store call (k from 1)
PublishedV1(load, k) ==
  IF load = "test" THEN {TestDataV1(k)}
  ELSE IF load = "leap" THEN {LeapDataV1(k)}
  ELSE IF k = 1
    THEN {DaemonDataV1(1),
          [DaemonDataV1(1) EXCEPT !.error_bound_ns = U64(0),
                                  !.holdover_multiplier_ns = UINT32_MAX]}
  ELSE {DaemonDataV1(k), [DaemonDataV1(k) EXCEPT !.holdover_multiplier_ns = UINT32_MAX]}

PayloadsV1(load) == UNION {PublishedV1(load, k) : k \in 1..MaxStores}

\* mmap fails: nothing is written
StoreV1MapFailed ==
  /\ writer.pc = "idle" /\ nstores < MaxStores
  /\ writer' = [WriterIdle EXCEPT !.rc = FBCLOCK_E_SHMEM_MAP_FAILED]
  /\ UNCHANGED <<arch, workload, shmp, shmp_v2, nstores, reader, call>>

\* the call begins with record d
StoreV1Begin(d) ==
  /\ writer.pc = "idle" /\ nstores < MaxStores
  /\ writer' = [pc |-> "copy", data |-> d, pos |-> 1, word |-> U64(0),
                rc |-> FBCLOCK_E_NO_ERROR]
  /\ nstores' = nstores + 1
  /\ reader' = Disturbed
  /\ UNCHANGED <<arch, workload, shmp, shmp_v2, call>>

\* memcpy(&shmp->data, data, ...), one field at a time
StoreV1Copy ==
  /\ writer.pc = "copy"
  /\ LET f == FieldsV1[writer.pos]
     IN shmp' = [shmp EXCEPT !.data[f] = writer.data[f]]
  /\ writer' = IF writer.pos = Len(FieldsV1)
                 THEN [writer EXCEPT !.pc = "crc"]
                 ELSE [writer EXCEPT !.pos = @ + 1]
  /\ UNCHANGED <<arch, workload, shmp_v2, nstores, reader, call>>

\* uint64_t crc = fbclock_clockdata_crc(data), a function of the caller's
\* record alone; atomic_store(&shmp->crc, crc); return FBCLOCK_E_NO_ERROR
StoreV1Crc ==
  /\ writer.pc = "crc"
  /\ \E crc \in {fbclock_clockdata_crc(arch, writer.data)} :
       /\ shmp' = [shmp EXCEPT !.crc = crc]
       /\ writer' = [writer EXCEPT !.pc = "idle", !.pos = 0, !.word = crc]
  /\ UNCHANGED <<arch, workload, shmp_v2, nstores, reader, call>>

fbclock_clockdata_store_data ==
  \/ StoreV1MapFailed
  \/ writer.pc = "idle" /\ \E d \in PublishedV1(workload, nstores + 1) : StoreV1Begin(d)
  \/ StoreV1Copy
  \/ StoreV1Crc

----------------------------------------------------------------------------
(* fbclock_gettime / fbclock_gettime_utc on a v1 handle:                   *)
(* fbclock_gettime_tz with fbclock_clockdata_load_data inside.             *)

fbclock_pct2ns(ptc) ==
  U64Add(U64Mul(ptc.sec, NANOSECONDS_IN_SECONDS), ptc.nsec)

\* a sampler that reports success whatever the sign of the delay
ReadPtpOffsetAnyDelay(psoe) ==
  IF psoe.r # 0 THEN [NoSample EXCEPT !.rc = -1, !.sampled = TRUE]
  ELSE [ rc |-> 0, ts |-> fbclock_pct2ns(psoe.ts[2]),
         delay |-> U64Sub(fbclock_pct2ns(psoe.ts[3]), fbclock_pct2ns(psoe.ts[1])),
         sampled |-> TRUE ]

\* lib->gettime with n_samples = 1: psoe.r is what the ioctl returned,
\* psoe.ts the triple (system time before, PHC time, system time after)
fbclock_read_ptp_offset_extended(psoe) ==
  IF psoe.r # 0 THEN [NoSample EXCEPT !.rc = -1, !.sampled = TRUE]
  ELSE
    LET delay == U64Sub(fbclock_pct2ns(psoe.ts[3]), fbclock_pct2ns(psoe.ts[1]))
        min_delay == IF I64Lt(delay, INT64_MAX) THEN delay ELSE INT64_MAX
    IN [ rc |-> IF I64IsNeg(min_delay) THEN -2 ELSE 0,
         ts |-> fbclock_pct2ns(psoe.ts[2]),
         delay |-> min_delay,
         sampled |-> TRUE ]

\* a sampler that takes the PHC timestamp for the second system timestamp
ReadPtpOffsetPhcPair(pso) ==
  IF pso.r # 0 THEN [NoSample EXCEPT !.rc = -1, !.sampled = TRUE]
  ELSE With(U64Sub(fbclock_pct2ns(pso.ts[2]), fbclock_pct2ns(pso.ts[1])),
            LAMBDA delay :
         [ rc |-> IF I64IsNeg(delay) THEN -2 ELSE 0,
           ts |-> fbclock_pct2ns(pso.ts[2]), delay |-> delay, sampled |-> TRUE ])

\* the loop of fbclock_read_ptp_offset from sample i on: pso.ts is the
\* interleaved sequence sys, phc, sys, ... (pso.ts[2 * i] of the code is
\* pso.ts[2 * i + 1] here)
RECURSIVE ReadPtpOffsetLoop(_, _, _)
ReadPtpOffsetLoop(pso, i, acc) ==
  IF i >= pso.n_samples THEN acc
  ELSE With(U64Sub(fbclock_pct2ns(pso.ts[2 * i + 3]),
                   fbclock_pct2ns(pso.ts[2 * i + 1])), LAMBDA delay :
         ReadPtpOffsetLoop(pso, i + 1,
           [ min_delay |-> IF I64Lt(delay, acc.min_delay)
                             THEN delay ELSE acc.min_delay,
             last_ts |-> fbclock_pct2ns(pso.ts[2 * i + 2]) ]))

\* lib->gettime when the probe of fbclock_init failed: pso.r is what the
\* PTP_SYS_OFFSET ioctl returned, pso.n_samples the 1 the function asked for
fbclock_read_ptp_offset(pso) ==
  IF pso.r # 0 THEN [NoSample EXCEPT !.rc = -1, !.sampled = TRUE]
  ELSE With(ReadPtpOffsetLoop(pso, 0, [min_delay |-> INT64_MAX, last_ts |-> U64(0)]),
            LAMBDA v :
         [ rc |-> IF I64IsNeg(v.min_delay) THEN -2 ELSE 0,
           ts |-> v.last_ts, delay |-> v.min_delay, sampled |-> TRUE ])

PtpTime(sec, nsec) == [sec |-> sec, nsec |-> U64(nsec)]

SysBefore == PtpTime(Dec(<<1, 647269054>>), 803102000)

\* what the PTP_SYS_OFFSET_EXTENDED ioctl may give: a failure; a sample 8.86 s
\* after the daemon's ingress time taken in 500 ns; one taken in 300 ns whose
\* PHC time lies before the ingress time; one whose system time went back
PhcSamples ==
  { [r |-> -1, ts |-> <<SysBefore, SysBefore, SysBefore>>],
    [r |-> 0, ts |-> << SysBefore, PtpTime(Dec(<<1, 647269091>>), 803102957),
                        PtpTime(SysBefore.sec, 803102500) >>],
    [r |-> 0, ts |-> << SysBefore, PtpTime(Dec(<<1, 647269082>>), 943150000),
                        PtpTime(SysBefore.sec, 803102300) >>],
    [r |-> 0, ts |-> << SysBefore, PtpTime(Dec(<<1, 647269091>>), 803102957),
                        PtpTime(SysBefore.sec, 803101900) >>] }

\* what fbclock_read_ptp_offset returns on those
PhcResults == {fbclock_read_ptp_offset_extended(psoe) : psoe \in PhcSamples}

\* fbclock_gettime or fbclock_gettime_utc begins: the caller passes a zeroed
\* truetime, fbclock_clockdata state = {}; and the first attempt
GettimeV1Begin(r) ==
  /\ reader[r].pc = "idle"
  /\ reader' = [reader EXCEPT ![r] =
       [ReaderIdle(FieldsV1) EXCEPT !.pc = "copy", !.pos = 1, !.calls = 1,
                 !.alone = (writer.pc = "idle"),
                 !.min_phc_delay = reader[r].min_phc_delay]]
  /\ UNCHANGED <<arch, workload, shmp, shmp_v2, writer, nstores, call>>

\* memcpy(data, &shmp->data, ...), one field at a time
LoadV1Copy(r) ==
  /\ reader[r].pc = "copy"
  /\ LET f == FieldsV1[reader[r].pos]
     IN reader' = [reader EXCEPT ![r] =
          [@ EXCEPT !.state[f] = shmp.data[f],
                    !.pc = IF reader[r].pos = Len(FieldsV1) THEN "crc" ELSE "copy",
                    !.pos = IF reader[r].pos = Len(FieldsV1) THEN 0 ELSE @ + 1]]
  /\ UNCHANGED <<arch, workload, shmp, shmp_v2, writer, nstores, call>>

\* a loop exit that reports the mismatch
ExhaustedIsMismatchV1(rd) ==
  IF rd.i + 1 < FBCLOCK_MAX_READ_TRIES
    THEN [rd EXCEPT !.pc = "copy", !.pos = 1, !.i = @ + 1]
    ELSE [rd EXCEPT !.pc = "loaded", !.i = @ + 1,
                    !.load_rc = FBCLOCK_E_CRC_MISMATCH]

\* the loop header: one more attempt, or the budget is spent and
\* fbclock_clockdata_load_data returns FBCLOCK_E_NO_ERROR all the same
NextAttemptV1(rd) ==
  IF rd.i + 1 < FBCLOCK_MAX_READ_TRIES
    THEN [rd EXCEPT !.pc = "copy", !.pos = 1, !.i = @ + 1]
    ELSE [rd EXCEPT !.pc = "loaded", !.i = @ + 1,
                    !.load_rc = FBCLOCK_E_NO_ERROR]

\* a comparison that never comes out equal
AcceptNoneV1(our_crc, crc) == FALSE

\* if (our_crc == crc) return FBCLOCK_E_NO_ERROR;
LoadV1Accepts(our_crc, crc) == our_crc = crc

\* crc = atomic_load(&shmp->crc); our_crc = fbclock_clockdata_crc(data);
LoadV1Check(r) ==
  /\ reader[r].pc = "crc"
  /\ \E our_crc \in {fbclock_clockdata_crc(arch, reader[r].state)} :
       LET rd == [reader[r] EXCEPT !.crc = shmp.crc, !.our_crc = our_crc,
                                   !.matched = (our_crc = shmp.crc)]
       IN reader' = [reader EXCEPT ![r] =
            IF LoadV1Accepts(our_crc, shmp.crc)
              THEN [rd EXCEPT !.pc = "loaded", !.load_rc = FBCLOCK_E_NO_ERROR]
              ELSE NextAttemptV1(rd)]
  /\ UNCHANGED <<arch, workload, shmp, shmp_v2, writer, nstores, call>>

fbclock_clockdata_load_data(r) ==
  \/ LoadV1Copy(r)
  \/ LoadV1Check(r)

\* a validation that leaves out the holdover_multiplier_ns sentinel
GettimeV1NoHoldoverTest(min_phc_delay, rcode, state, truetime, time_standard, res) ==
  LET unsampled == [rc |-> rcode, truetime |-> truetime,
                    min_phc_delay |-> min_phc_delay, res |-> NoSample]
  IN IF state.error_bound_ns = U64(0) \/ state.ingress_time_ns = U64(0)
       THEN [unsampled EXCEPT !.rc = FBCLOCK_E_NO_DATA]
     ELSE IF state.error_bound_ns = UINT32_MAX
       THEN [unsampled EXCEPT !.rc = FBCLOCK_E_WOU_TOO_BIG]
     ELSE IF res.rc # 0
       THEN [unsampled EXCEPT !.rc = FBCLOCK_E_PTP_READ_OFFSET, !.res = res]
     ELSE [unsampled EXCEPT
             !.rc = IF I64Lt(res.ts, state.ingress_time_ns)
                      THEN FBCLOCK_E_PHC_IN_THE_PAST ELSE FBCLOCK_E_NO_ERROR,
             !.res = res]

\* a call that stores the delay of its own sample, whatever the handle held
GettimeV1KeepsLastDelay(min_phc_delay, rcode, state, truetime, time_standard, res) ==
  IF rcode # FBCLOCK_E_NO_ERROR
       \/ state.error_bound_ns = U64(0) \/ state.ingress_time_ns = U64(0)
       \/ state.error_bound_ns = UINT32_MAX
       \/ state.holdover_multiplier_ns = UINT32_MAX
    THEN GettimeV1NoHoldoverTest(min_phc_delay, rcode,
           [state EXCEPT !.error_bound_ns =
              IF state.holdover_multiplier_ns = UINT32_MAX
                THEN UINT32_MAX ELSE state.error_bound_ns],
           truetime, time_standard, res)
  ELSE IF res.rc # 0
    THEN [rc |-> FBCLOCK_E_PTP_READ_OFFSET, truetime |-> truetime,
          min_phc_delay |-> min_phc_delay, res |-> res]
  ELSE With(fbclock_calculate_time(
              U64Add(state.error_bound_ns, res.delay),
              DblDiv(DblFromU64(state.holdover_multiplier_ns), FBCLOCK_POW2_16),
              state, res.ts, truetime, time_standard), LAMBDA out :
         [rc |-> out.rc, truetime |-> out.truetime,
          min_phc_delay |-> res.delay, res |-> res])

\* a call that samples the PHC first and validates the record afterwards
GettimeV1SamplesFirst(min_phc_delay, rcode, state, truetime, time_standard, res) ==
  IF rcode # FBCLOCK_E_NO_ERROR
    THEN [rc |-> rcode, truetime |-> truetime,
          min_phc_delay |-> min_phc_delay, res |-> NoSample]
  ELSE IF res.rc # 0
    THEN [rc |-> FBCLOCK_E_PTP_READ_OFFSET, truetime |-> truetime,
          min_phc_delay |-> min_phc_delay, res |-> res]
  ELSE With(IF I64Lt(res.delay, min_phc_delay) THEN res.delay ELSE min_phc_delay,
            LAMBDA min2 :
    IF state.error_bound_ns = U64(0) \/ state.ingress_time_ns = U64(0)
      THEN [rc |-> FBCLOCK_E_NO_DATA, truetime |-> truetime,
            min_phc_delay |-> min2, res |-> res]
    ELSE IF state.error_bound_ns = UINT32_MAX
              \/ state.holdover_multiplier_ns = UINT32_MAX
      THEN [rc |-> FBCLOCK_E_WOU_TOO_BIG, truetime |-> truetime,
            min_phc_delay |-> min2, res |-> res]
    ELSE With(fbclock_calculate_time(
                U64Add(state.error_bound_ns, min2),
                DblDiv(DblFromU64(state.holdover_multiplier_ns), FBCLOCK_POW2_16),
                state, res.ts, truetime, time_standard), LAMBDA out :
           [rc |-> out.rc, truetime |-> out.truetime,
            min_phc_delay |-> min2, res |-> res]))

\* fbclock_gettime_tz after the load: [rc, truetime, min_phc_delay, res].
\* res is what fbclock_read_ptp_offset gives if the call gets as far as
\* sampling the PHC
fbclock_gettime_tz(min_phc_delay, rcode, state, truetime, time_standard, res) ==
  LET unsampled == [rc |-> rcode, truetime |-> truetime,
                    min_phc_delay |-> min_phc_delay, res |-> NoSample]
  IN IF rcode # FBCLOCK_E_NO_ERROR THEN unsampled
     ELSE IF state.error_bound_ns = U64(0) \/ state.ingress_time_ns = U64(0)
       THEN [unsampled EXCEPT !.rc = FBCLOCK_E_NO_DATA]
     ELSE IF state.error_bound_ns = UINT32_MAX
               \/ state.holdover_multiplier_ns = UINT32_MAX
       THEN [unsampled EXCEPT !.rc = FBCLOCK_E_WOU_TOO_BIG]
     ELSE IF res.rc # 0
       THEN [unsampled EXCEPT !.rc = FBCLOCK_E_PTP_READ_OFFSET, !.res = res]
     ELSE LET min2 == IF I64Lt(res.delay, min_phc_delay)
                    THEN res.delay ELSE min_phc_delay
              error_bound == U64Add(state.error_bound_ns, min2)
              h_value == DblDiv(DblFromU64(state.holdover_multiplier_ns),
                                FBCLOCK_POW2_16)
              out == fbclock_calculate_time(error_bound, h_value, state, res.ts,
                                            truetime, time_standard)
          IN [rc |-> out.rc, truetime |-> out.truetime,
              min_phc_delay |-> min2, res |-> res]

\* the rest of the call, once the load has returned; what it leaves behind
\* is the return code, the caller's truetime and lib->min_phc_delay (the
\* sampler's result is kept beside them), its locals are gone
GettimeV1Return(r, time_standard, res) ==
  /\ reader[r].pc = "loaded"
  /\ \E out \in {fbclock_gettime_tz(reader[r].min_phc_delay, reader[r].load_rc,
                                     reader[r].state, reader[r].truetime,
                                     time_standard, res)} :
       reader' = [reader EXCEPT ![r] =
         [ReaderIdle(FieldsV1) EXCEPT
            !.calls = reader[r].calls, !.load_rc = reader[r].load_rc,
            !.rc = out.rc, !.truetime = out.truetime,
            !.time_standard = time_standard,
            !.min_phc_delay = out.min_phc_delay, !.res = out.res]]
  /\ UNCHANGED <<arch, workload, shmp, shmp_v2, writer, nstores, call>>

\* the frame fresh from ftruncate: checksum word and payload zero
InitV1 ==
  /\ arch \in {"x86_64", "generic"}
  /\ workload \in {"test", "daemon"}
  /\ shmp = [crc |-> U64(0), data |-> ZeroData(FieldsV1)]
  /\ shmp_v2 = [seq |-> U64(0), data |-> ZeroData(FieldsV2)]
  /\ writer = WriterIdle
  /\ nstores = 0
  /\ reader = [r \in Readers |-> ReaderIdle(FieldsV1)]
  /\ call = NoCall

NextV1 ==
  \/ fbclock_clockdata_store_data
  \/ \E r \in Readers :
       \/ GettimeV1Begin(r)
       \/ fbclock_clockdata_load_data(r)
       \/ reader[r].pc = "loaded"
          /\ \E ts \in {FBCLOCK_TAI, FBCLOCK_UTC}, res \in PhcResults :
               GettimeV1Return(r, ts, res)

SpecV1 == InitV1 /\ [][NextV1]_vars

\* the same with a daemon that publishes a new leap second and nothing else
InitV1Leap ==
  /\ arch = "x86_64"
  /\ workload = "leap"
  /\ shmp = [crc |-> U64(0), data |-> ZeroData(FieldsV1)]
  /\ shmp_v2 = [seq |-> U64(0), data |-> ZeroData(FieldsV2)]
  /\ writer = WriterIdle
  /\ nstores = 0
  /\ reader = [r \in Readers |-> ReaderIdle(FieldsV1)]
  /\ call = NoCall

SpecV1Leap == InitV1Leap /\ [][NextV1]_vars

----------------------------------------------------------------------------
(* Direct calls of the pure functions, as the unit tests make them.        *)

\* the double num / 2^bits of a pair <<num, bits>>
Dyadic(p) == DblLit(p[1], p[2])

\* seconds since the last SYNC: 0, 1, 3, 10 and 0.5
CalcSeconds == {<<0, 0>>, <<1, 0>>, <<3, 0>>, <<10, 0>>, <<1, 1>>}
\* holdover multipliers in ns/s: 50.5, 0 and 1.5
CalcHoldovers == {<<101, 1>>, <<0, 0>>, <<3, 1>>}
CalcErrorBounds == {U64(10), U64(172), U64(1000)}

WouCalls ==
  { [fn |-> "fbclock_window_of_uncertainty", pc |-> "call", seconds |-> s,
     error_bound_ns |-> e, holdover_multiplier_ns |-> h, out |-> <<>>] :
      s \in CalcSeconds, e \in CalcErrorBounds, h \in CalcHoldovers }

\* PHC times: the test's, six hours later, the middle of the smear window
\* of 2017, a PHC that has counted 5 ns since it was reset, and the ingress
\* time of the test's record itself
CalcPhcTime == Dec(<<1, 647269091, 803102957>>)

CalcPhcTimes ==
  { CalcPhcTime, Dec(<<1, 647290691, 803102976>>),
    Dec(<<1, 483261336, 0>>), U64(5), DaemonIngress }

\* records that pass the validation of fbclock_gettime_tz: the test's, the
\* same with the leap second of 2017, the same with its smear window but
\* without the offsets, and one whose SYNC came 1 ns after the PHC was reset
CalcStatesV1 ==
  { [ZeroData(FieldsV1) EXCEPT !.ingress_time_ns = DaemonIngress,
                               !.error_bound_ns = U64(172),
                               !.holdover_multiplier_ns = U64(3309568)],
    [DaemonDataV1(0) EXCEPT !.ingress_time_ns = U64(1)],
    [DaemonDataV1(0) EXCEPT !.ingress_time_ns = U64(1),
                            !.utc_offset_pre_s = U64(0),
                            !.utc_offset_post_s = U64(0)],
    [ZeroData(FieldsV1) EXCEPT !.ingress_time_ns = U64(1),
                               !.error_bound_ns = U64(10),
                               !.holdover_multiplier_ns = U64(3309568)] }

CalculateTimeCalls ==
  { [fn |-> "fbclock_calculate_time", pc |-> "call", error_bound_ns |-> e,
     h_value_ns |-> h, state |-> st, phctime_ns |-> t, time_standard |-> ts,
     out |-> <<>>] :
      e \in CalcErrorBounds, h \in {<<101, 1>>}, st \in CalcStatesV1,
      t \in CalcPhcTimes, ts \in {FBCLOCK_TAI, FBCLOCK_UTC} }

\* the test's v2 record; the same with a negative coefficient, with the PHC
\* time before the ingress time, with a PHC 5 ns after its reset, with the
\* PHC time equal to the ingress time, and with the PHC time 500 ns before it
CalcStateV2 ==
  [ZeroData(FieldsV2) EXCEPT !.ingress_time_ns = DaemonIngress,
                             !.error_bound_ns = U64(172),
                             !.holdover_multiplier_ns = U64(3309568),
                             !.clockId = CLOCK_MONOTONIC_RAW,
                             !.phc_time_ns = CalcPhcTime,
                             !.sysclock_time_ns = TestSysclockTime,
                             !.coef_ppb = U64(12)]

CalcStatesV2 ==
  { CalcStateV2,
    [CalcStateV2 EXCEPT !.coef_ppb = U64Neg(U64(12))],
    [CalcStateV2 EXCEPT !.ingress_time_ns = CalcPhcTime,
                        !.phc_time_ns = DaemonIngress],
    [CalcStateV2 EXCEPT !.ingress_time_ns = U64(1), !.phc_time_ns = U64(5)],
    [CalcStateV2 EXCEPT !.phc_time_ns = DaemonIngress],
    [CalcStateV2 EXCEPT !.phc_time_ns = U64Sub(DaemonIngress, U64(500))],
    \* a PHC time in the smear window of 2017, with and without the offsets
    [CalcStateV2 EXCEPT !.ingress_time_ns = U64(1),
                        !.phc_time_ns = Dec(<<1, 483261336, 0>>),
                        !.clock_smearing_start_s = U64Of(SmearStart2017),
                        !.utc_offset_pre_s = U64(36),
                        !.utc_offset_post_s = U64(37)],
    [CalcStateV2 EXCEPT !.ingress_time_ns = U64(1),
                        !.phc_time_ns = Dec(<<1, 483261336, 0>>),
                        !.clock_smearing_start_s = U64Of(SmearStart2017)] }

\* the system clock 1 us after the daemon read it, 1 us before, and six
\* hours after
CalcSysclockNow ==
  { U64Add(TestSysclockTime, U64(1000)), U64Sub(TestSysclockTime, U64(1000)),
    U64Add(TestSysclockTime, U64Of(Dec(<<21600, 0>>))) }

CalculateTimeV2Calls ==
  { [fn |-> "fbclock_calculate_time_v2", pc |-> "call", error_bound_ns |-> e,
     h_value_ns |-> h, state |-> st, sysclock_time_now_ns |-> t,
     time_standard |-> ts, out |-> <<>>] :
      e \in CalcErrorBounds, h \in {<<101, 1>>}, st \in CalcStatesV2,
      t \in CalcSysclockNow, ts \in {FBCLOCK_TAI, FBCLOCK_UTC} }

\* the arguments of fbclock_apply_smear in the tests of the leap second of
\* 2017 and of a negative leap second in 2030 (windows of 65,000 s), and the
\* arguments fbclock_apply_utc_offset_v2 passes for the leap second of 2017
\* (the window ends SMEAR_DURATION after its start)
SmearWindows ==
  { [offset_pre_ns |-> U64Of(Dec(<<36, 0>>)), offset_post_ns |-> U64Of(Dec(<<37, 0>>)),
     smear_start_ns |-> Dec(<<1, 483228836, 0>>),
     smear_end_ns |-> Dec(<<1, 483293836, 0>>), multiplier |-> U64(1)],
    [offset_pre_ns |-> U64Of(Dec(<<37, 0>>)), offset_post_ns |-> U64Of(Dec(<<36, 0>>)),
     smear_start_ns |-> Dec(<<1, 893456037, 0>>),
     smear_end_ns |-> Dec(<<1, 893521037, 0>>), multiplier |-> U64Neg(U64(1))],
    [offset_pre_ns |-> U64Of(Dec(<<36, 0>>)), offset_post_ns |-> U64Of(Dec(<<37, 0>>)),
     smear_start_ns |-> Dec(<<1, 483228836, 0>>),
     smear_end_ns |-> U64Mul(U64Add(SmearStart2017, SMEAR_DURATION),
                             NANOSECONDS_IN_SECONDS),
     multiplier |-> U64(1)] }

\* times before, at the edges of, in the middle of, inside and after a
\* window, and the times of 2015 and 2024 of the tests
SmearTimes(w) ==
  { U64Sub(w.smear_start_ns, NANOSECONDS_IN_SECONDS),
    U64Sub(w.smear_start_ns, U64(1)),
    w.smear_start_ns,
    U64Add(w.smear_start_ns, U64(65000)),
    U64Add(w.smear_start_ns, U64(130000)),
    U64Add(w.smear_start_ns, NANOSECONDS_IN_SECONDS),
    U64Sub(w.smear_end_ns, U64(1)),
    w.smear_end_ns,
    U64Add(w.smear_end_ns, U64(1)),
    U64Add(w.smear_end_ns, NANOSECONDS_IN_SECONDS),
    Dec(<<1, 443142307, 961555444>>),
    Dec(<<1, 714142307, 961569530>>) }
  \cup { U64Add(middle, step) :
           middle \in {U64Add(w.smear_start_ns,
                              U64Div(U64Sub(w.smear_end_ns, w.smear_start_ns),
                                     U64(2)))},
           step \in {U64(0), U64(1), NANOSECONDS_IN_SECONDS} }

ApplySmearCalls ==
  { [fn |-> "fbclock_apply_smear", pc |-> "call", time |-> t, window |-> w,
     out |-> <<>>] : w \in SmearWindows, t \in UNION {SmearTimes(v) : v \in SmearWindows} }

\* v2 records with the leap second of 2017 and with a negative leap second
\* whose smearing begins at the same time
LeapStatesV2 ==
  { [CalcStateV2 EXCEPT !.clock_smearing_start_s = U64Of(SmearStart2017),
                        !.utc_offset_pre_s = U64(36),
                        !.utc_offset_post_s = U64(37)],
    [CalcStateV2 EXCEPT !.clock_smearing_start_s = U64Of(SmearStart2017),
                        !.utc_offset_pre_s = U64(37),
                        !.utc_offset_post_s = U64(36)] }

\* TAI times around the start and around the end of the window of such a
\* record, SMEAR_DURATION after the start
ApplyUtcOffsetV2Calls ==
  { [fn |-> "fbclock_apply_utc_offset_v2", pc |-> "call", state |-> st,
     phctime_ns |-> U64Add(U64Mul(U64Add(st.clock_smearing_start_s, s),
                                  NANOSECONDS_IN_SECONDS), ns),
     out |-> <<>>] :
      st \in LeapStatesV2, s \in {U64(0), U64(31250), SMEAR_DURATION},
      ns \in {U64Neg(U64(1)), U64(0), U64(1)} }

ZeroTruetime == [earliest_ns |-> U64(0), latest_ns |-> U64(0)]

CallWindowOfUncertainty ==
  /\ call.pc = "call" /\ call.fn = "fbclock_window_of_uncertainty"
  /\ call' = [call EXCEPT !.pc = "done",
                !.out = fbclock_window_of_uncertainty(
                          Dyadic(call.seconds), call.error_bound_ns,
                          Dyadic(call.holdover_multiplier_ns))]
  /\ UNCHANGED <<arch, workload, shmp, shmp_v2, writer, nstores, reader>>

CallCalculateTime ==
  /\ call.pc = "call" /\ call.fn = "fbclock_calculate_time"
  /\ call' = [call EXCEPT !.pc = "done",
                !.out = fbclock_calculate_time(
                          call.error_bound_ns, Dyadic(call.h_value_ns),
                          call.state, call.phctime_ns, ZeroTruetime,
                          call.time_standard)]
  /\ UNCHANGED <<arch, workload, shmp, shmp_v2, writer, nstores, reader>>

CallCalculateTimeV2 ==
  /\ call.pc = "call" /\ call.fn = "fbclock_calculate_time_v2"
  /\ call' = [call EXCEPT !.pc = "done",
                !.out = fbclock_calculate_time_v2(
                          call.error_bound_ns, Dyadic(call.h_value_ns),
                          call.state, call.sysclock_time_now_ns, ZeroTruetime,
                          call.time_standard)]
  /\ UNCHANGED <<arch, workload, shmp, shmp_v2, writer, nstores, reader>>

CallApplySmear ==
  /\ call.pc = "call" /\ call.fn = "fbclock_apply_smear"
  /\ call' = [call EXCEPT !.pc = "done",
                !.out = fbclock_apply_smear(
                          call.time, call.window.offset_pre_ns,
                          call.window.offset_post_ns,
                          call.window.smear_start_ns,
                          call.window.smear_end_ns, call.window.multiplier)]
  /\ UNCHANGED <<arch, workload, shmp, shmp_v2, writer, nstores, reader>>

CallApplyUtcOffsetV2 ==
  /\ call.pc = "call" /\ call.fn = "fbclock_apply_utc_offset_v2"
  /\ call' = [call EXCEPT !.pc = "done",
                !.out = fbclock_apply_utc_offset_v2(call.state, call.phctime_ns)]
  /\ UNCHANGED <<arch, workload, shmp, shmp_v2, writer, nstores, reader>>

\* what the PTP_SYS_OFFSET ioctl gives when the clocks are read at the times
\* of psoe: one sample, the three timestamps interleaved
SysOffsetOf(psoe) == [r |-> psoe.r, n_samples |-> 1, ts |-> psoe.ts]

\* lib->gettime(lib->dev_fd, &res) with either of the two methods
ReadPtpOffsetCalls ==
  { [fn |-> f, pc |-> "call", sample |-> s, out |-> <<>>] :
      f \in {"fbclock_read_ptp_offset", "fbclock_read_ptp_offset_extended"},
      s \in PhcSamples }

CallReadPtpOffset ==
  /\ call.pc = "call"
  /\ call.fn \in {"fbclock_read_ptp_offset", "fbclock_read_ptp_offset_extended"}
  /\ call' = [call EXCEPT !.pc = "done",
                !.out = IF call.fn = "fbclock_read_ptp_offset_extended"
                          THEN fbclock_read_ptp_offset_extended(call.sample)
                          ELSE fbclock_read_ptp_offset(SysOffsetOf(call.sample))]
  /\ UNCHANGED <<arch, workload, shmp, shmp_v2, writer, nstores, reader>>

InitCalc ==
  /\ arch = "x86_64"
  /\ workload = "test"
  /\ shmp = [crc |-> U64(0), data |-> ZeroData(FieldsV1)]
  /\ shmp_v2 = [seq |-> U64(0), data |-> ZeroData(FieldsV2)]
  /\ writer = WriterIdle
  /\ nstores = 0
  /\ reader = [r \in Readers |-> ReaderIdle(FieldsV1)]
  /\ call \in WouCalls \cup CalculateTimeCalls \cup CalculateTimeV2Calls
              \cup ApplySmearCalls \cup ApplyUtcOffsetV2Calls \cup ReadPtpOffsetCalls

NextCalc ==
  \/ CallWindowOfUncertainty
  \/ CallCalculateTime
  \/ CallCalculateTimeV2
  \/ CallApplySmear
  \/ CallApplyUtcOffsetV2
  \/ CallReadPtpOffset

SpecCalc == InitCalc /\ [][NextCalc]_vars

----------------------------------------------------------------------------
(* Two threads of the reader process inside fbclock_gettime_tz on one v1   *)
(* handle, with nothing serialising them.  lib->min_phc_delay is a plain   *)
(* int64_t: the accesses race, so each one is either a single 64-bit       *)
(* access or two 32-bit halves in either order (a 32-bit build), and the   *)
(* value added to the error bound is either loaded again or the value the  *)
(* comparison left in a register.                                          *)

Threads == {1, 2}

\* the handle the threads share
SharedHandle == CHOOSE r \in Readers : TRUE

\* the records the threads load: the test's, and the same with a SYNC that
\* came 1 ns after the PHC was reset (both samples lie after it)
RaceStates ==
  { [ZeroData(FieldsV1) EXCEPT !.ingress_time_ns = DaemonIngress,
                               !.error_bound_ns = U64(172),
                               !.holdover_multiplier_ns = U64(3309568)],
    [ZeroData(FieldsV1) EXCEPT !.ingress_time_ns = U64(1),
                               !.error_bound_ns = U64(172),
                               !.holdover_multiplier_ns = U64(3309568)] }

\* a thread between calls.  seen is the register the loads of
\* lib->min_phc_delay go to, half the 32-bit half an access has still to
\* do, added what the call added to the published error bound
ThreadIdle ==
  [ pc |-> "idle", state |-> ZeroData(FieldsV1), res |-> NoSample,
    seen |-> U64(0), half |-> "none", added |-> U64(0),
    rc |-> FBCLOCK_E_NO_ERROR, truetime |-> ZeroTruetime ]

\* how an access to an int64_t is carried out: at once, low half first, or
\* high half first
AccessOrders == {"once", "lo", "hi"}

OtherHalf(h) == IF h = "lo" THEN "hi" ELSE "lo"

\* the 64-bit value v with the 32-bit half h taken from w
PutHalf(v, h, w) ==
  IF h = "lo" THEN SubSeq(w, 1, 4) \o SubSeq(v, 5, 8)
              ELSE SubSeq(v, 1, 4) \o SubSeq(w, 5, 8)

\* the register after the test res.delay < lib->min_phc_delay and the
\* assignment it guards, when the compiler keeps the value it loaded
RegisterAfterCompareStale(delay, seen) == seen

RegisterAfterCompare(delay, seen) == IF I64Lt(delay, seen) THEN delay ELSE seen

\* the load and the validation have passed; lib->gettime samples the PHC.
\* call.observed collects the delays of the samples taken without error
RaceSample(t, state, res) ==
  /\ call.thr[t].pc = "idle"
  /\ call' = [call EXCEPT
       !.thr[t] = IF res.rc # 0
                    THEN [ThreadIdle EXCEPT !.state = state, !.res = res,
                                            !.rc = FBCLOCK_E_PTP_READ_OFFSET]
                    ELSE [ThreadIdle EXCEPT !.pc = "compare", !.state = state,
                                            !.res = res],
       !.observed = IF res.rc # 0 THEN @ ELSE @ \cup {res.delay}]
  /\ UNCHANGED <<arch, workload, shmp, shmp_v2, writer, nstores, reader>>

\* where the thread goes once seen holds what it loaded for the test
AfterCompare(th, seen) ==
  [th EXCEPT !.seen = seen, !.half = "none",
             !.pc = IF I64Lt(th.res.delay, seen) THEN "write" ELSE "bound"]

\* the load of lib->min_phc_delay for the test, or its first half
RaceCompare(t, order) ==
  /\ call.thr[t].pc = "compare" /\ call.thr[t].half = "none"
  /\ call' = [call EXCEPT !.thr[t] =
       IF order = "once"
         THEN AfterCompare(@, reader[SharedHandle].min_phc_delay)
         ELSE [@ EXCEPT !.half = OtherHalf(order),
                 !.seen = PutHalf(U64(0), order,
                                  reader[SharedHandle].min_phc_delay)]]
  /\ UNCHANGED <<arch, workload, shmp, shmp_v2, writer, nstores, reader>>

\* the second half of that load
RaceCompareHalf(t) ==
  /\ call.thr[t].pc = "compare" /\ call.thr[t].half # "none"
  /\ call' = [call EXCEPT !.thr[t] =
       AfterCompare(@, PutHalf(@.seen, @.half,
                               reader[SharedHandle].min_phc_delay))]
  /\ UNCHANGED <<arch, workload, shmp, shmp_v2, writer, nstores, reader>>

\* lib->min_phc_delay = res.delay, or its first half
RaceWrite(t, order) ==
  /\ call.thr[t].pc = "write" /\ call.thr[t].half = "none"
  /\ reader' = [reader EXCEPT ![SharedHandle].min_phc_delay =
       IF order = "once" THEN call.thr[t].res.delay
                         ELSE PutHalf(@, order, call.thr[t].res.delay)]
  /\ call' = [call EXCEPT !.thr[t] =
       IF order = "once" THEN [@ EXCEPT !.pc = "bound"]
                         ELSE [@ EXCEPT !.half = OtherHalf(order)]]
  /\ UNCHANGED <<arch, workload, shmp, shmp_v2, writer, nstores>>

\* the second half of that store
RaceWriteHalf(t) ==
  /\ call.thr[t].pc = "write" /\ call.thr[t].half # "none"
  /\ reader' = [reader EXCEPT ![SharedHandle].min_phc_delay =
       PutHalf(@, call.thr[t].half, call.thr[t].res.delay)]
  /\ call' = [call EXCEPT !.thr[t] = [@ EXCEPT !.pc = "bound", !.half = "none"]]
  /\ UNCHANGED <<arch, workload, shmp, shmp_v2, writer, nstores>>

\* the rest of the call once min_phc_delay holds what is added
RaceReturn(th, min_phc_delay) ==
  With(fbclock_calculate_time(
         U64Add(th.state.error_bound_ns, min_phc_delay),
         DblDiv(DblFromU64(th.state.holdover_multiplier_ns), FBCLOCK_POW2_16),
         th.state, th.res.ts, ZeroTruetime, FBCLOCK_TAI), LAMBDA out :
    [th EXCEPT !.pc = "idle", !.half = "none", !.seen = U64(0),
               !.added = min_phc_delay, !.rc = out.rc,
               !.truetime = out.truetime])

\* error_bound = state.error_bound_ns + lib->min_phc_delay: the value is
\* the one in the register, or it is loaded again (at once or a half first)
RaceBound(t, order) ==
  /\ call.thr[t].pc = "bound" /\ call.thr[t].half = "none"
  /\ call' = [call EXCEPT !.thr[t] =
       IF order = "register"
         THEN RaceReturn(@, RegisterAfterCompare(@.res.delay, @.seen))
       ELSE IF order = "once"
         THEN RaceReturn(@, reader[SharedHandle].min_phc_delay)
       ELSE [@ EXCEPT !.half = OtherHalf(order),
               !.seen = PutHalf(U64(0), order,
                                reader[SharedHandle].min_phc_delay)]]
  /\ UNCHANGED <<arch, workload, shmp, shmp_v2, writer, nstores, reader>>

\* the second half of that load
RaceBoundHalf(t) ==
  /\ call.thr[t].pc = "bound" /\ call.thr[t].half # "none"
  /\ call' = [call EXCEPT !.thr[t] =
       RaceReturn(@, PutHalf(@.seen, @.half,
                             reader[SharedHandle].min_phc_delay))]
  /\ UNCHANGED <<arch, workload, shmp, shmp_v2, writer, nstores, reader>>

\* the handle fresh from fbclock_init, both threads about to call
InitRace ==
  /\ arch = "x86_64"
  /\ workload = "test"
  /\ shmp = [crc |-> U64(0), data |-> ZeroData(FieldsV1)]
  /\ shmp_v2 = [seq |-> U64(0), data |-> ZeroData(FieldsV2)]
  /\ writer = WriterIdle
  /\ nstores = 0
  /\ reader = [r \in Readers |-> ReaderIdle(FieldsV1)]
  /\ call = [fn |-> "fbclock_gettime_tz", pc |-> "threads", observed |-> {},
             thr |-> [t \in Threads |-> ThreadIdle]]

NextRace ==
  \E t \in Threads :
    \/ \E state \in RaceStates, res \in PhcResults : RaceSample(t, state, res)
    \/ \E order \in AccessOrders : RaceCompare(t, order)
    \/ RaceCompareHalf(t)
    \/ \E order \in AccessOrders : RaceWrite(t, order)
    \/ RaceWriteHalf(t)
    \/ \E order \in AccessOrders \cup {"register"} : RaceBound(t, order)
    \/ RaceBoundHalf(t)

SpecRace == InitRace /\ [][NextRace]_vars

----------------------------------------------------------------------------

(* The life of a handle: fbclock_init, fbclock_gettime and                 *)
(* fbclock_gettime_utc, fbclock_destroy, with the daemon publishing to the *)
(* v1 and the v2 file meanwhile.  Strings are sequences of characters.     *)

FBCLOCK_PATH ==
  << "/", "r", "u", "n", "/", "f", "b", "c", "l", "o", "c", "k", "_", "d",
     "a", "t", "a", "_", "v", "1" >>

FBCLOCK_PATH_V2 ==
  << "/", "r", "u", "n", "/", "f", "b", "c", "l", "o", "c", "k", "_", "d",
     "a", "t", "a", "_", "v", "2" >>

\* the files of the daemon, and files of other names that hold a frame: a
\* name shorter than the suffix, a name that is the suffix, a name with the
\* suffix in the middle
ShmFiles ==
  { FBCLOCK_PATH, FBCLOCK_PATH_V2, <<"v", "2">>, <<"_", "v", "2">>,
    <<"/", "_", "v", "2", "/", "f">> }

\* what a caller may pass to fbclock_init: those, and a file that is not there
ShmPaths == ShmFiles \cup { <<"/", "n", "o", "_", "v", "2">> }

\* a suffix test that looks for the suffix at the start
StartsWith(str, suffix) ==
  IF Len(suffix) > Len(str) THEN FALSE
  ELSE SubSeq(str, 1, Len(suffix)) = suffix

\* ends_with(str, suffix) != 0.  Neither argument is NULL where fbclock_init
\* calls it: open has read shm_path, the suffix is a literal
ends_with(str, suffix) ==
  LET lenstr == Len(str)
      lensuffix == Len(suffix)
  IN IF lensuffix > lenstr THEN FALSE
     ELSE SubSeq(str, lenstr - lensuffix + 1, lenstr) = suffix

\* a fbclock_lib the caller has declared and not yet passed to fbclock_init
LibUnset ==
  [ shm_fd |-> "unset", dev_fd |-> "unset", shmp |-> "unset",
    shmp_v2 |-> "unset", gettime |-> "unset" ]

\* what the system calls of one fbclock_init may do: open of the PTP device,
\* the PTP_SYS_OFFSET_EXTENDED probe, mmap
InitOutcomes == [ptp_open : BOOLEAN, probe : BOOLEAN, mmap : BOOLEAN]

\* a fbclock_init that takes a failed probe for a device it cannot use
InitProbeRequired(lib, shm_path, files, sys) ==
  IF shm_path \notin files
    THEN [rc |-> FBCLOCK_E_SHMEM_OPEN, lib |-> lib, fresh |-> FALSE]
  ELSE IF ~sys.ptp_open \/ ~sys.probe
    THEN [rc |-> FBCLOCK_E_PTP_OPEN, lib |-> [lib EXCEPT !.shm_fd = "open"],
          fresh |-> FALSE]
  ELSE IF ~sys.mmap
    THEN [rc |-> FBCLOCK_E_SHMEM_MAP_FAILED,
          lib |-> [lib EXCEPT !.shm_fd = "open", !.dev_fd = "open",
                              !.gettime = "fbclock_read_ptp_offset_extended"],
          fresh |-> TRUE]
  ELSE [rc |-> FBCLOCK_E_NO_ERROR,
        lib |-> [shm_fd |-> "open", dev_fd |-> "open",
                 shmp |-> IF ends_with(shm_path, <<"_", "v", "2">>)
                            THEN "NULL" ELSE "mapped",
                 shmp_v2 |-> IF ends_with(shm_path, <<"_", "v", "2">>)
                               THEN "mapped" ELSE "NULL",
                 gettime |-> "fbclock_read_ptp_offset_extended"],
        fresh |-> TRUE]

\* fbclock_init(lib, shm_path): [rc, lib, fresh], fresh telling whether
\* lib->min_phc_delay was set to INT64_MAX.  files are the files that exist
fbclock_init(lib, shm_path, files, sys) ==
  IF shm_path \notin files
    THEN [rc |-> FBCLOCK_E_SHMEM_OPEN, lib |-> lib, fresh |-> FALSE]
  ELSE IF ~sys.ptp_open
    THEN [rc |-> FBCLOCK_E_PTP_OPEN, lib |-> [lib EXCEPT !.shm_fd = "open"],
          fresh |-> FALSE]
  ELSE
    LET probed == [lib EXCEPT !.shm_fd = "open", !.dev_fd = "open",
                     !.gettime = IF sys.probe
                                   THEN "fbclock_read_ptp_offset_extended"
                                   ELSE "fbclock_read_ptp_offset"]
    IN IF ~sys.mmap
         THEN [rc |-> FBCLOCK_E_SHMEM_MAP_FAILED, lib |-> probed, fresh |-> TRUE]
       ELSE IF ends_with(shm_path, <<"_", "v", "2">>)
         THEN [rc |-> FBCLOCK_E_NO_ERROR,
               lib |-> [probed EXCEPT !.shmp_v2 = "mapped", !.shmp = "NULL"],
               fresh |-> TRUE]
       ELSE [rc |-> FBCLOCK_E_NO_ERROR,
             lib |-> [probed EXCEPT !.shmp = "mapped", !.shmp_v2 = "NULL"],
             fresh |-> TRUE]

\* the handle of reader r: live is "fresh" before the first fbclock_init,
\* "ready" after one that returned FBCLOCK_E_NO_ERROR, "failed" after one
\* that did not, "destroyed" after fbclock_destroy; path and rc are the
\* argument and the return code of fbclock_init, sys what its system calls
\* did (kept for the properties only)
HandleUnset ==
  [ live |-> "fresh", path |-> <<>>, rc |-> FBCLOCK_E_NO_ERROR, lib |-> LibUnset,
    sys |-> [ptp_open |-> FALSE, probe |-> FALSE, mmap |-> FALSE] ]

Handles == [fn |-> "fbclock_init", pc |-> "handles", files |-> ShmFiles,
            h |-> [r \in Readers |-> HandleUnset]]

\* the caller declares a handle and calls fbclock_init on it
CallInit(r, shm_path, sys) ==
  /\ call.h[r].live = "fresh"
  /\ \E out \in {fbclock_init(call.h[r].lib, shm_path, call.files, sys)} :
       /\ call' = [call EXCEPT !.h[r] =
            [ live |-> IF out.rc = FBCLOCK_E_NO_ERROR THEN "ready" ELSE "failed",
              path |-> shm_path, rc |-> out.rc, lib |-> out.lib, sys |-> sys ]]
       /\ reader' = [reader EXCEPT ![r].min_phc_delay =
                       IF out.fresh THEN INT64_MAX ELSE @]
  /\ UNCHANGED <<arch, workload, shmp, shmp_v2, writer, nstores>>

\* fbclock_gettime, fbclock_gettime_utc: if (lib->shmp_v2)
UsesV2(lib) == lib.shmp_v2 # "NULL"

fbclock_gettime(r) ==
  /\ call.h[r].live = "ready"
  /\ IF UsesV2(call.h[r].lib) THEN GettimeV2Begin(r) ELSE GettimeV1Begin(r)

\* the load inside the call
HandleLoad(r) ==
  /\ call.h[r].live = "ready"
  /\ IF UsesV2(call.h[r].lib)
       THEN fbclock_clockdata_load_data_v2(r)
       ELSE fbclock_clockdata_load_data(r)

\* what a sampler returned, and beside it the ioctl request it made (kept
\* for the properties only)
Requested(request, res) ==
  [ rc |-> res.rc, ts |-> res.ts, delay |-> res.delay, sampled |-> res.sampled,
    request |-> request ]

\* a handle that turns to the basic method when the extended ioctl fails
LibGettimeFallback(gettime, psoe) ==
  IF gettime = "fbclock_read_ptp_offset_extended" /\ psoe.r = 0
    THEN Requested("PTP_SYS_OFFSET_EXTENDED", fbclock_read_ptp_offset_extended(psoe))
    ELSE Requested("PTP_SYS_OFFSET",
                   fbclock_read_ptp_offset(SysOffsetOf([psoe EXCEPT !.r = 0])))

\* lib->gettime(lib->dev_fd, &res)
LibGettime(gettime, psoe) ==
  IF gettime = "fbclock_read_ptp_offset_extended"
    THEN Requested("PTP_SYS_OFFSET_EXTENDED", fbclock_read_ptp_offset_extended(psoe))
    ELSE Requested("PTP_SYS_OFFSET", fbclock_read_ptp_offset(SysOffsetOf(psoe)))

\* the rest of the call, once the load has returned
HandleReturn(r) ==
  /\ call.h[r].live = "ready" /\ reader[r].pc = "loaded"
  /\ IF UsesV2(call.h[r].lib)
       THEN \E ts \in {FBCLOCK_TAI, FBCLOCK_UTC}, clock \in ClockOutcomes :
              GettimeV2Return(r, ts, clock)
       ELSE \E ts \in {FBCLOCK_TAI, FBCLOCK_UTC}, psoe \in PhcSamples :
              GettimeV1Return(r, ts, LibGettime(call.h[r].lib.gettime, psoe))

\* a fbclock_destroy that removes the file it had mapped
DestroyUnlinks(r) ==
  /\ call.h[r].live = "ready" /\ reader[r].pc = "idle"
  /\ call' = [call EXCEPT !.h[r].live = "destroyed",
                          !.files = @ \ {call.h[r].path}]
  /\ UNCHANGED <<arch, workload, shmp, shmp_v2, writer, nstores, reader>>

\* munmap, munmap, close, close: the struct is left as it is
fbclock_destroy(r) ==
  /\ call.h[r].live = "ready" /\ reader[r].pc = "idle"
  /\ call' = [call EXCEPT !.h[r].live = "destroyed"]
  /\ UNCHANGED <<arch, workload, shmp, shmp_v2, writer, nstores, reader>>

\* the store call under way, if any, was given a v2 record
InStoreV2 == writer.pc # "idle" /\ "phc_time_ns" \in DOMAIN writer.data

\* the daemon: one store call at a time, to the v1 or to the v2 file
DaemonStore ==
  \/ (writer.pc = "idle" \/ ~InStoreV2) /\ fbclock_clockdata_store_data
  \/ (writer.pc = "idle" \/ InStoreV2) /\ fbclock_clockdata_store_data_v2

InitHandle ==
  /\ arch = "x86_64"
  /\ workload = "test"
  /\ shmp = [crc |-> U64(0), data |-> ZeroData(FieldsV1)]
  /\ shmp_v2 = [seq |-> U64(0), data |-> ZeroData(FieldsV2)]
  /\ writer = WriterIdle
  /\ nstores = 0
  /\ reader = [r \in Readers |-> ReaderIdle(FieldsV1)]
  /\ call = Handles

NextHandle ==
  \/ DaemonStore
  \/ \E r \in Readers :
       \/ \E shm_path \in ShmPaths, sys \in InitOutcomes : CallInit(r, shm_path, sys)
       \/ fbclock_gettime(r)
       \/ HandleLoad(r)
       \/ HandleReturn(r)
       \/ fbclock_destroy(r)

SpecHandle == InitHandle /\ [][NextHandle]_vars

----------------------------------------------------------------------------

----------------------------------------------------------------------------
(* One fbclock_gettime / fbclock_gettime_utc call of a caller whose        *)
(* fbclock_truetime holds what it held before: zeros (fbclock-bin's first  *)
(* call) or the interval of an earlier call (its later calls with -f).     *)

\* the interval of the unit test, left in the struct by an earlier call
PreviousTruetime ==
  [ earliest_ns |-> Dec(<<1, 647269091, 803102338>>),
    latest_ns |-> Dec(<<1, 647269091, 803103576>>) ]

CallerTruetimes == {ZeroTruetime, PreviousTruetime}

\* handles fbclock_init has returned FBCLOCK_E_NO_ERROR for: the v1 and the
\* v2 file, every system call of fbclock_init succeeding
ReadyHandles ==
  { [ live |-> "ready", path |-> p, rc |-> FBCLOCK_E_NO_ERROR,
      lib |-> fbclock_init(LibUnset, p, ShmFiles, sys).lib, sys |-> sys ] :
      p \in {FBCLOCK_PATH, FBCLOCK_PATH_V2},
      sys \in {s \in InitOutcomes : s.ptp_open /\ s.probe /\ s.mmap} }

\* the callers: a ready handle each, and the truetime struct they pass,
\* `before` its contents when the call is made
Callers ==
  { [fn |-> "fbclock_gettime", pc |-> "handles", files |-> ShmFiles,
     h |-> [r \in Readers |-> hd], before |-> [r \in Readers |-> tt]] :
      hd \in ReadyHandles, tt \in CallerTruetimes }

\* err = fbclock_gettime(&lib, &truetime): the first call on the handle;
\* the struct is passed as it is
CallGettime(r) ==
  /\ call.h[r].live = "ready"
  /\ reader[r].pc = "idle" /\ reader[r].calls = 0
  /\ reader' = [reader EXCEPT ![r] =
       IF UsesV2(call.h[r].lib)
         THEN [ReaderIdle(FieldsV2) EXCEPT !.pc = "seq1", !.calls = 1,
                     !.alone = (writer.pc = "idle"),
                     !.min_phc_delay = reader[r].min_phc_delay,
                     !.truetime = reader[r].truetime]
         ELSE [ReaderIdle(FieldsV1) EXCEPT !.pc = "copy", !.pos = 1, !.calls = 1,
                     !.alone = (writer.pc = "idle"),
                     !.min_phc_delay = reader[r].min_phc_delay,
                     !.truetime = reader[r].truetime]]
  /\ UNCHANGED <<arch, workload, shmp, shmp_v2, writer, nstores, call>>

InitCaller ==
  /\ arch = "x86_64"
  /\ workload = "daemon"
  /\ shmp = [crc |-> U64(0), data |-> ZeroData(FieldsV1)]
  /\ shmp_v2 = [seq |-> U64(0), data |-> ZeroData(FieldsV2)]
  /\ writer = WriterIdle
  /\ nstores = 0
  /\ call \in Callers
  /\ reader = [r \in Readers |->
                 [ReaderIdle(FieldsV1) EXCEPT !.truetime = call.before[r]]]

\* the daemon storing to the file the caller has mapped
DaemonStoreMapped ==
  \/ (\E r \in Readers : ~UsesV2(call.h[r].lib)) /\ fbclock_clockdata_store_data
  \/ (\E r \in Readers : UsesV2(call.h[r].lib)) /\ fbclock_clockdata_store_data_v2

NextCaller ==
  \/ DaemonStoreMapped
  \/ \E r \in Readers :
       \/ CallGettime(r)
       \/ HandleLoad(r)
       \/ HandleReturn(r)

SpecCaller == InitCaller /\ [][NextCaller]_vars

(* Properties of the v1 protocol and of fbclock_gettime_tz.                *)

\* the relations the test's writer keeps between the fields of a record
RelatedV1(d) ==
  /\ d.error_bound_ns = U64Add(d.ingress_time_ns, d.ingress_time_ns)
  /\ d.holdover_multiplier_ns
       = U64Add(d.error_bound_ns, d.ingress_time_ns)

\* C2: when every published record has error_bound_ns = 2 * ingress_time_ns
\* and holdover_multiplier_ns = 3 * ingress_time_ns, every record that
\* fbclock_clockdata_load_data delivers with FBCLOCK_E_NO_ERROR has them too.
C2_AsStated ==
  \A r \in Readers :
    (/\ workload = "test"
     /\ reader[r].pc = "loaded"
     /\ reader[r].load_rc = FBCLOCK_E_NO_ERROR)
      => RelatedV1(reader[r].state)

\* the transition that ends a gettime call on handle r
ReturnsV1(r) == reader[r].pc = "loaded" /\ reader'[r].pc = "idle"

\* the code the validation chain owes to a loaded record and a sample
GettimeV1Code(state, res) ==
  IF state.error_bound_ns = U64(0) \/ state.ingress_time_ns = U64(0)
    THEN FBCLOCK_E_NO_DATA
  ELSE IF state.error_bound_ns = UINT32_MAX
            \/ state.holdover_multiplier_ns = UINT32_MAX
    THEN FBCLOCK_E_WOU_TOO_BIG
  ELSE IF ~res.sampled \/ res.rc # 0 THEN FBCLOCK_E_PTP_READ_OFFSET
  ELSE IF I64Lt(res.ts, state.ingress_time_ns) THEN FBCLOCK_E_PHC_IN_THE_PAST
  ELSE FBCLOCK_E_NO_ERROR

C4_Step ==
  \A r \in Readers :
    ReturnsV1(r) =>
      /\ reader'[r].rc = GettimeV1Code(reader[r].state, reader'[r].res)
      /\ reader'[r].res.sampled
           <=> reader'[r].rc \notin {FBCLOCK_E_NO_DATA, FBCLOCK_E_WOU_TOO_BIG}

\* C4: a v1 gettime call returns FBCLOCK_E_NO_DATA when the loaded
\* error_bound_ns or ingress_time_ns is 0; otherwise FBCLOCK_E_WOU_TOO_BIG
\* when error_bound_ns or holdover_multiplier_ns is UINT32_MAX; otherwise
\* FBCLOCK_E_PTP_READ_OFFSET when the PHC sampling fails; otherwise
\* FBCLOCK_E_PHC_IN_THE_PAST when the sample is before ingress_time_ns; and
\* FBCLOCK_E_NO_ERROR only when none of these holds.  The PHC is sampled
\* exactly when the record passed the first two tests.
C4_GettimeErrorOrder == [][C4_Step]_vars

\* a call got through the chain as far as its last test: it returned
\* FBCLOCK_E_PHC_IN_THE_PAST on a sample that was taken without error
C4_WitnessPhcInThePast ==
  \E r \in Readers :
    /\ reader[r].pc = "idle" /\ reader[r].calls = 1
    /\ reader[r].rc = FBCLOCK_E_PHC_IN_THE_PAST
    /\ reader[r].res.sampled /\ reader[r].res.rc = 0

\* C7: fbclock_clockdata_load_data returns FBCLOCK_E_NO_ERROR and nothing
\* else; when every attempt saw a mismatch it returns after
\* FBCLOCK_MAX_READ_TRIES attempts with the record of the last attempt (the
\* one whose checksum it computed last), and no v1 gettime call returns
\* FBCLOCK_E_CRC_MISMATCH.
C7_LoadV1NeverFails ==
  \A r \in Readers :
    /\ reader[r].load_rc = FBCLOCK_E_NO_ERROR
    /\ reader[r].rc # FBCLOCK_E_CRC_MISMATCH
    /\ reader[r].i <= FBCLOCK_MAX_READ_TRIES
    /\ (reader[r].pc = "loaded" /\ ~reader[r].matched)
         => /\ reader[r].i = FBCLOCK_MAX_READ_TRIES
            /\ reader[r].our_crc # reader[r].crc
            /\ reader[r].our_crc = fbclock_clockdata_crc(arch, reader[r].state)

\* the load spent its budget on a frame whose checksum word the writer had
\* not yet stored, and returned FBCLOCK_E_NO_ERROR with a torn record
C7_WitnessExhaustedNoError ==
  \E r \in Readers :
    /\ reader[r].pc = "loaded" /\ ~reader[r].matched
    /\ reader[r].load_rc = FBCLOCK_E_NO_ERROR
    /\ reader[r].i = FBCLOCK_MAX_READ_TRIES
    /\ writer.pc = "crc"
    /\ reader[r].state \notin PayloadsV1(workload)

\* C9: a load that ran with no store call in progress or begun meanwhile,
\* on a frame whose last store call completed, returns FBCLOCK_E_NO_ERROR
\* on its first attempt with the record that call was given, field by field.
C9_RoundTripV1 ==
  \A r \in Readers :
    (/\ reader[r].pc = "loaded" /\ reader[r].alone
     /\ writer.pc = "idle" /\ writer.rc = FBCLOCK_E_NO_ERROR /\ nstores > 0)
      => /\ reader[r].load_rc = FBCLOCK_E_NO_ERROR
         /\ reader[r].i = 0
         /\ reader[r].matched
         /\ \A f \in Range(FieldsV1) : reader[r].state[f] = writer.data[f]

\* the second record was stored and then loaded back, undisturbed
C9_WitnessSecondRecord ==
  \E r \in Readers :
    /\ reader[r].pc = "loaded" /\ reader[r].alone
    /\ writer.pc = "idle" /\ writer.rc = FBCLOCK_E_NO_ERROR /\ nstores = 2
    /\ reader[r].state = writer.data
    /\ reader[r].state.ingress_time_ns # U64(0)

----------------------------------------------------------------------------
(* Properties of the TrueTime assembler.                                   *)

\* C3: whenever fbclock_calculate_time or fbclock_calculate_time_v2 returns
\* FBCLOCK_E_NO_ERROR, earliest_ns <= latest_ns as unsigned 64-bit numbers.
C3_AsStated ==
  (/\ call.pc = "done"
   /\ call.fn \in {"fbclock_calculate_time", "fbclock_calculate_time_v2"}
   /\ call.out.rc = FBCLOCK_E_NO_ERROR)
    => U64Le(call.out.truetime.earliest_ns, call.out.truetime.latest_ns)

\* floor(h * seconds) of two dyadic numbers, in integers
TruncatedProduct(h, seconds) == (h[1] * seconds[1]) \div (2 ^ (h[2] + seconds[2]))

\* C10: fbclock_window_of_uncertainty(seconds, error_bound_ns, h) is
\* error_bound_ns + trunc(h * seconds), the product truncated toward zero
\* before the integer addition: 172 for (0, 172, 50.5), 677 for
\* (10, 172, 50.5).
C10_WouIsBoundPlusTruncatedHoldover ==
  (call.pc = "done" /\ call.fn = "fbclock_window_of_uncertainty") =>
    /\ call.out = U64Add(call.error_bound_ns,
                         U64(TruncatedProduct(call.holdover_multiplier_ns,
                                              call.seconds)))
    /\ (call.error_bound_ns = U64(172) /\ call.holdover_multiplier_ns = <<101, 1>>)
         => /\ call.seconds = <<0, 0>> => call.out = U64(172)
            /\ call.seconds = <<10, 0>> => call.out = U64(677)

\* the second call of the test has returned: 677 for (10, 172, 50.5)
C10_WitnessTestValues ==
  /\ call.pc = "done" /\ call.fn = "fbclock_window_of_uncertainty"
  /\ call.seconds = <<10, 0>>
  /\ call.error_bound_ns = U64(172)
  /\ call.holdover_multiplier_ns = <<101, 1>>
  /\ call.out = U64(677)

\* the call of fbclock_calculate_time has returned; it was made with the
\* given time standard and a PHC time not before the ingress time
CalcTimeDone(time_standard) ==
  /\ call.pc = "done" /\ call.fn = "fbclock_calculate_time"
  /\ call.time_standard = time_standard
  /\ ~I64Lt(call.phctime_ns, call.state.ingress_time_ns)

\* error_bound + trunc(h * (phctime_ns - ingress_time_ns) / 1e9): the
\* quotient and the product are doubles, the sum is a 64-bit integer
WouOfCall(c, phc_ns) ==
  U64Add(c.error_bound_ns,
         DblToU64(DblMul(Dyadic(c.h_value_ns),
                         DblDiv(DblFromU64(U64Sub(phc_ns, c.state.ingress_time_ns)),
                                DblFromU64(NANOSECONDS_IN_SECONDS)))))

\* the call of the unit test: ingress 1647269082943150996, PHC
\* 1647269091803102957, error bound 172, h = 50.5
IsTestCalcCall(c) ==
  /\ c.state.ingress_time_ns = DaemonIngress
  /\ c.phctime_ns = CalcPhcTime
  /\ c.error_bound_ns = U64(172)
  /\ c.h_value_ns = <<101, 1>>

CalcWidthIsTwiceErrorBound ==
  U64Sub(call.out.truetime.latest_ns, call.out.truetime.earliest_ns)
    = U64Add(call.error_bound_ns, call.error_bound_ns)

\* C12: fbclock_calculate_time returns FBCLOCK_E_PHC_IN_THE_PAST if and only
\* if ingress_time_ns > phctime_ns; with ingress_time_ns = phctime_ns it
\* returns FBCLOCK_E_NO_ERROR and w = error_bound.  fbclock_calculate_time_v2
\* returns it if and only if ingress_time_ns > the published phc_time_ns, the
\* value before the extrapolation.
C12_PhcInThePastIffIngressLater ==
  /\ (call.pc = "done" /\ call.fn = "fbclock_calculate_time") =>
       /\ call.out.rc = FBCLOCK_E_PHC_IN_THE_PAST
            <=> I64Lt(call.phctime_ns, call.state.ingress_time_ns)
       /\ call.out.rc \in {FBCLOCK_E_PHC_IN_THE_PAST, FBCLOCK_E_NO_ERROR}
       /\ call.phctime_ns = call.state.ingress_time_ns =>
            call.out.rc = FBCLOCK_E_NO_ERROR /\ CalcWidthIsTwiceErrorBound
  /\ (call.pc = "done" /\ call.fn = "fbclock_calculate_time_v2") =>
       /\ call.out.rc = FBCLOCK_E_PHC_IN_THE_PAST
            <=> I64Lt(call.state.phc_time_ns, call.state.ingress_time_ns)
       /\ call.out.rc \in {FBCLOCK_E_PHC_IN_THE_PAST, FBCLOCK_E_NO_ERROR}
       /\ call.state.phc_time_ns = call.state.ingress_time_ns =>
            call.out.rc = FBCLOCK_E_NO_ERROR /\ CalcWidthIsTwiceErrorBound

\* a call with the PHC time equal to the ingress time was accepted
C12_WitnessEqualityAccepted ==
  /\ call.pc = "done" /\ call.fn = "fbclock_calculate_time"
  /\ call.phctime_ns = call.state.ingress_time_ns
  /\ call.out.rc = FBCLOCK_E_NO_ERROR
  /\ CalcWidthIsTwiceErrorBound

----------------------------------------------------------------------------
(* Properties of the error bound and of min_phc_delay.                     *)

\* trunc(h * seconds) for a loaded record and the PHC time the elapsed
\* seconds are counted to, h = holdover_multiplier_ns / 2^16
HoldoverOfRecord(state, phc_ns) ==
  DblToU64(DblMul(DblDiv(DblFromU64(state.holdover_multiplier_ns),
                         FBCLOCK_POW2_16),
                  ElapsedSeconds(phc_ns, state.ingress_time_ns)))

\* a first gettime call on handle r has returned FBCLOCK_E_NO_ERROR
GettimeSucceeded(r) ==
  /\ reader[r].pc = "idle" /\ reader[r].calls = 1
  /\ reader[r].rc = FBCLOCK_E_NO_ERROR

\* C13: on a v2 handle the error bound that fbclock_gettime /
\* fbclock_gettime_utc passes to the interval assembler is the published
\* error_bound_ns plus the handle's min_phc_delay: the interval returned is
\* 2 * (error_bound_ns + min_phc_delay + holdover) wide.
C13_AsStated ==
  \A r \in Readers :
    GettimeSucceeded(r) =>
      U64Sub(reader[r].truetime.latest_ns, reader[r].truetime.earliest_ns)
        = U64Mul(U64(2),
                 U64Add(U64Add(reader[r].state.error_bound_ns,
                               reader[r].min_phc_delay),
                        HoldoverOfRecord(reader[r].state,
                                         reader[r].state.phc_time_ns)))

\* the smaller of two int64_t
I64Min(a, b) == IF I64Lt(a, b) THEN a ELSE b

\* this step ends a v1 gettime call of handle r that took a PHC sample
\* without error
SampledV1(r) ==
  ReturnsV1(r) /\ reader'[r].res.sampled /\ reader'[r].res.rc = 0

\* min_phc_delay after a step: lowered to the delay of the sample the step
\* took if that is smaller, and otherwise what it was
C14_Step ==
  \A r \in Readers :
    /\ reader'[r].min_phc_delay =
         IF SampledV1(r)
           THEN I64Min(reader[r].min_phc_delay, reader'[r].res.delay)
           ELSE reader[r].min_phc_delay
    /\ ~I64Lt(reader[r].min_phc_delay, reader'[r].min_phc_delay)

\* C14: on a v1 handle min_phc_delay is INT64_MAX after fbclock_init and
\* after every gettime call it is the minimum of the delays of the PHC
\* samples taken without error so far: each call that samples lowers it to
\* its own delay if that is smaller, no step changes it otherwise, it never
\* increases and it is never negative.
C14_MinPhcDelayIsRunningMinimum ==
  /\ \A r \in Readers : reader[r].min_phc_delay = INT64_MAX
  /\ [](\A r \in Readers : ~I64IsNeg(reader[r].min_phc_delay))
  /\ [][C14_Step]_vars

\* a call sampled with a delay of 500 ns on a handle that had seen 300 ns
\* before: the minimum stayed at 300 ns
C14_WitnessLaterSampleSlower ==
  \E r \in Readers :
    /\ reader[r].pc = "idle" /\ reader[r].res.sampled /\ reader[r].res.rc = 0
    /\ reader[r].res.delay = U64(500)
    /\ reader[r].min_phc_delay = U64(300)


----------------------------------------------------------------------------
(* Properties of two threads sharing a v1 handle.                          *)

\* the smallest of a non-empty set of delays
TrueMinimum(delays) == CHOOSE d \in delays : \A e \in delays : ~I64Lt(e, d)

\* thread t is between calls and its last call got as far as the error bound
RaceCallBounded(t) ==
  /\ call.thr[t].pc = "idle"
  /\ call.thr[t].res.sampled /\ call.thr[t].res.rc = 0

\* no store to lib->min_phc_delay is half done
NoWriteInProgress == \A t \in Threads : call.thr[t].half = "none" \/ call.thr[t].pc # "write"

\* C15: two threads inside fbclock_gettime on one v1 handle, the load,
\* the comparison and the store of min_phc_delay interleaved in every way:
\* the value left in min_phc_delay (INT64_MAX until a sample was taken) and
\* the value each call adds to its error bound is one of the delays
\* observed on the handle, so not below their minimum, and an interval
\* returned is at least 2 * (error_bound_ns + minimum delay + holdover) wide.
C15_RaceKeepsObservedDelay ==
  /\ NoWriteInProgress =>
       reader[SharedHandle].min_phc_delay \in call.observed \cup {INT64_MAX}
  /\ (\A t \in Threads : call.thr[t].pc = "idle") /\ call.observed # {} =>
       reader[SharedHandle].min_phc_delay \in call.observed
  /\ \A t \in Threads : RaceCallBounded(t) =>
       /\ call.thr[t].added \in call.observed
       /\ ~I64Lt(call.thr[t].added, TrueMinimum(call.observed))
       /\ call.thr[t].rc = FBCLOCK_E_NO_ERROR =>
            \E least \in {U64Add(U64Add(call.thr[t].state.error_bound_ns,
                                        TrueMinimum(call.observed)),
                                 HoldoverOfRecord(call.thr[t].state,
                                                  call.thr[t].res.ts))} :
              ~U64Lt(U64Sub(call.thr[t].truetime.latest_ns,
                            call.thr[t].truetime.earliest_ns),
                     U64Add(least, least))

\* a lost update: both threads have returned, delays of 300 ns and 500 ns
\* were observed, the handle is left with 500 ns and one call returned an
\* interval after adding 500 ns
C15_WitnessLostUpdate ==
  /\ \A t \in Threads : call.thr[t].pc = "idle"
  /\ call.observed = {U64(300), U64(500)}
  /\ reader[SharedHandle].min_phc_delay = U64(500)
  /\ \E t \in Threads :
       /\ RaceCallBounded(t) /\ call.thr[t].rc = FBCLOCK_E_NO_ERROR
       /\ call.thr[t].added = U64(500)
       /\ call.thr[t].res.delay = U64(500)


----------------------------------------------------------------------------
(* Properties of the UTC conversion.                                       *)

ApplySmearDone == call.fn = "fbclock_apply_smear" /\ call.pc = "done"

\* the stated conversion, the multiplier taken as the integer +1 or -1:
\* one more nanosecond is removed (m = +1) or one fewer (m = -1) for each
\* 65,000 ns since the window began
SmearAsStated(t, w) ==
  IF U64Lt(t, w.smear_start_ns) THEN U64Sub(t, w.offset_pre_ns)
  ELSE IF U64Lt(w.smear_end_ns, t) THEN U64Sub(t, w.offset_post_ns)
  ELSE IF w.multiplier = U64(1)
    THEN U64Sub(U64Sub(t, w.offset_pre_ns),
                U64Div(U64Sub(t, w.smear_start_ns), U64(65000)))
    ELSE U64Add(U64Sub(t, w.offset_pre_ns),
                U64Div(U64Sub(t, w.smear_start_ns), U64(65000)))

\* C16: fbclock_apply_smear returns t - offset_pre before the window,
\* t - offset_post after it and t - (offset_pre + m * floor((t - start) /
\* 65,000)) from start to end inclusive, for m = +1 and m = -1; the middle
\* of the window of 2017 maps to 1483261299500000000 and the middle of the
\* negative leap second's window to 1893488500500000000.
C16_SmearIsPiecewise ==
  ApplySmearDone =>
    /\ call.out = SmearAsStated(call.time, call.window)
    /\ call.time = Dec(<<1, 483261336, 0>>)
         /\ call.window.smear_end_ns = Dec(<<1, 483293836, 0>>)
         => call.out = Dec(<<1, 483261299, 500000000>>)
    /\ call.time = Dec(<<1, 893488537, 0>>)
         /\ call.window.multiplier = U64Neg(U64(1))
         => call.out = Dec(<<1, 893488500, 500000000>>)

\* the call in the middle of the negative leap second's window has returned
C16_WitnessNegativeMiddle ==
  /\ ApplySmearDone
  /\ call.window.multiplier = U64Neg(U64(1))
  /\ call.time = Dec(<<1, 893488537, 0>>)
  /\ call.out = Dec(<<1, 893488500, 500000000>>)


\* the conversion of time t with the arguments of call c
SmearOfCall(c, t) ==
  fbclock_apply_smear(t, c.window.offset_pre_ns, c.window.offset_post_ns,
                      c.window.smear_start_ns, c.window.smear_end_ns,
                      c.window.multiplier)

\* C17: with multiplier +1 and offset_post = offset_pre + 1 s,
\* fbclock_apply_smear is non-decreasing in its time argument: whatever
\* later time t2 is taken before, inside, at the edges of or after the
\* window, the result for t2 is not below the result of the call.
C17_AsStated ==
  ApplySmearDone /\ call.window.multiplier = U64(1)
      /\ call.window.offset_post_ns
           = U64Add(call.window.offset_pre_ns, NANOSECONDS_IN_SECONDS)
    => \A t2 \in SmearTimes(call.window) :
         U64Le(call.time, t2) => U64Le(call.out, SmearOfCall(call, t2))


\* the end of the smear window of a v2 record, in ns
SmearEndV2(state) ==
  U64Mul(U64Add(state.clock_smearing_start_s, U64(62500)),
         NANOSECONDS_IN_SECONDS)

\* C18: fbclock_apply_utc_offset_v2 gives a continuous UTC for a leap of
\* one second: at the end of its window, 62,500 s after the start, the
\* whole second has been smeared (the result is the input less
\* utc_offset_post_s), and the result 1 ns later is 1 ns more.
C18_AsStated ==
  call.fn = "fbclock_apply_utc_offset_v2" /\ call.pc = "done"
      /\ call.phctime_ns = SmearEndV2(call.state)
    => /\ call.out = U64Sub(call.phctime_ns,
                            U64Mul(call.state.utc_offset_post_s,
                                   NANOSECONDS_IN_SECONDS))
       /\ fbclock_apply_utc_offset_v2(call.state,
                                      U64Add(call.phctime_ns, U64(1)))
            = U64Add(call.out, U64(1))


\* a call of one of the two assemblers has returned
AssemblerDone ==
  /\ call.pc = "done"
  /\ call.fn \in {"fbclock_calculate_time", "fbclock_calculate_time_v2"}

\* what the call returns when it is made for TAI
TaiOfCall(c) ==
  IF c.fn = "fbclock_calculate_time"
    THEN fbclock_calculate_time(c.error_bound_ns, Dyadic(c.h_value_ns), c.state,
                                c.phctime_ns, ZeroTruetime, FBCLOCK_TAI)
    ELSE fbclock_calculate_time_v2(c.error_bound_ns, Dyadic(c.h_value_ns),
                                   c.state, c.sysclock_time_now_ns,
                                   ZeroTruetime, FBCLOCK_TAI)

\* the offsets and the window a record publishes, in ns; a v2 record has
\* no end field, its window ends 62,500 s after the start
PublishedWindow(c) ==
  [ offset_pre_ns |-> U64Mul(c.state.utc_offset_pre_s, NANOSECONDS_IN_SECONDS),
    offset_post_ns |-> U64Mul(c.state.utc_offset_post_s, NANOSECONDS_IN_SECONDS),
    smear_start_ns |-> U64Mul(c.state.clock_smearing_start_s,
                              NANOSECONDS_IN_SECONDS),
    smear_end_ns |->
      IF c.fn = "fbclock_calculate_time"
        THEN U64Mul(c.state.clock_smearing_end_s, NANOSECONDS_IN_SECONDS)
        ELSE SmearEndV2(c.state),
    multiplier |-> U64Sub(c.state.utc_offset_post_s, c.state.utc_offset_pre_s) ]

\* the UTC interval of a TAI interval [earliest, latest]: the fixed 37 s
\* when both offsets are 0, else the conversion of its middle with the
\* published offsets and window, the width kept
UtcOfTai(c, tt) ==
  IF c.state.utc_offset_pre_s = U64(0) /\ c.state.utc_offset_post_s = U64(0)
    THEN [earliest_ns |-> U64Sub(tt.earliest_ns, U64Of(Dec(<<37, 0>>))),
          latest_ns |-> U64Sub(tt.latest_ns, U64Of(Dec(<<37, 0>>)))]
    ELSE With(U64Div(U64Sub(tt.latest_ns, tt.earliest_ns), U64(2)), LAMBDA w :
           With(SmearAsStated(U64Add(tt.earliest_ns, w), PublishedWindow(c)),
                LAMBDA utc :
             [earliest_ns |-> U64Sub(utc, w), latest_ns |-> U64Add(utc, w)]))

----------------------------------------------------------------------------
(* Properties of the v2 extrapolation.                                     *)

\* |a| of an int64_t
I64Abs(a) == IF I64IsNeg(a) THEN U64Neg(a) ELSE a

\* the correction term of a returned v2 interval: its middle less
\* phc_time_ns less d, where d = sysclock_time_now_ns - sysclock_time_ns
CorrectionOfCall(c) ==
  U64Sub(U64Sub(U64Add(c.out.truetime.earliest_ns,
                       U64Div(U64Sub(c.out.truetime.latest_ns,
                                     c.out.truetime.earliest_ns), U64(2))),
                c.state.phc_time_ns),
         U64Sub(c.sysclock_time_now_ns, c.state.sysclock_time_ns))

\* C20: fbclock_calculate_time_v2 puts the middle of the TAI interval at
\* phc_time_ns + d + d * coef_ppb / 1e9, d and coef_ppb signed: the
\* correction term is at most |d * coef_ppb| / 1e9 in magnitude and, when
\* it is not 0, has the sign of d * coef_ppb.
C20_AsStated ==
  call.pc = "done" /\ call.fn = "fbclock_calculate_time_v2"
      /\ call.time_standard = FBCLOCK_TAI
      /\ call.out.rc = FBCLOCK_E_NO_ERROR
    => \E term \in {CorrectionOfCall(call)},
          product \in {U64Mul(U64Sub(call.sysclock_time_now_ns,
                                     call.state.sysclock_time_ns),
                              call.state.coef_ppb)} :
         /\ U64Le(I64Abs(term), U64Div(I64Abs(product), NANOSECONDS_IN_SECONDS))
         /\ term # U64(0) => I64IsNeg(term) = I64IsNeg(product)

----------------------------------------------------------------------------
(* Properties of the PHC sampling inside fbclock_gettime_tz.               *)

\* this step ends a v1 gettime call of handle r whose sample came back with
\* system time after before system time before
NegativeDelayV1(r) ==
  ReturnsV1(r) /\ reader'[r].res.sampled /\ I64IsNeg(reader'[r].res.delay)

C24_Step ==
  \A r \in Readers :
    NegativeDelayV1(r) =>
      /\ reader'[r].res.rc # 0
      /\ reader'[r].rc = FBCLOCK_E_PTP_READ_OFFSET
      /\ reader'[r].min_phc_delay = reader[r].min_phc_delay
      /\ reader'[r].truetime = reader[r].truetime

\* C24: when the delay of a PHC sample (system time after minus system time
\* before) is negative the sampler returns non-zero, the gettime call
\* returns FBCLOCK_E_PTP_READ_OFFSET, and min_phc_delay and the caller's
\* truetime are what they were before the call.
C24_NegativeDelayIsReadError == [][C24_Step]_vars

\* a handle that had recorded a delay of 300 ns took a sample with a
\* negative delay: the call failed and the 300 ns are still there
C24_WitnessNegativeAfterGood ==
  \E r \in Readers :
    /\ reader[r].pc = "idle" /\ reader[r].res.sampled
    /\ I64IsNeg(reader[r].res.delay)
    /\ reader[r].rc = FBCLOCK_E_PTP_READ_OFFSET
    /\ reader[r].min_phc_delay = U64(300)

\* the record passes the two tests that precede the sampling
ValidatedV1(state) ==
  /\ state.error_bound_ns # U64(0) /\ state.ingress_time_ns # U64(0)
  /\ state.error_bound_ns # UINT32_MAX
  /\ state.holdover_multiplier_ns # UINT32_MAX

C26_Step ==
  \A r \in Readers :
    /\ (reader'[r].res.sampled /\ reader'[r].res # reader[r].res)
         => /\ ReturnsV1(r)
            /\ reader[r].load_rc = FBCLOCK_E_NO_ERROR
            /\ ValidatedV1(reader[r].state)
    /\ (ReturnsV1(r)
        /\ reader'[r].rc \in {FBCLOCK_E_NO_DATA, FBCLOCK_E_WOU_TOO_BIG})
         => /\ ~ValidatedV1(reader[r].state)
            /\ reader'[r].res = NoSample
            /\ reader'[r].min_phc_delay = reader[r].min_phc_delay

\* C26: inside a v1 gettime call the PHC is sampled only once the load has
\* returned and the loaded record has passed validation; a call that ends
\* with FBCLOCK_E_NO_DATA or FBCLOCK_E_WOU_TOO_BIG loaded a record that
\* fails validation, took no sample and left min_phc_delay as it was.
C26_LoadValidateThenSample == [][C26_Step]_vars

\* a handle that had recorded 300 ns loaded the "too big" sentinel: the
\* call took no sample and the 300 ns are still there
C26_WitnessTooBigUnsampled ==
  \E r \in Readers :
    /\ reader[r].pc = "idle" /\ reader[r].calls = 1
    /\ reader[r].rc = FBCLOCK_E_WOU_TOO_BIG
    /\ reader[r].res = NoSample
    /\ reader[r].min_phc_delay = U64(300)

----------------------------------------------------------------------------
(* Properties of the v2 protocol with the writer at rest.                  *)

\* C28: a v2 load that ran with no store call in progress or begun
\* meanwhile, on a frame whose last store call completed, returns
\* FBCLOCK_E_NO_ERROR on its first attempt with the record that call was
\* given, field by field.
C28_RoundTripV2 ==
  \A r \in Readers :
    (/\ reader[r].pc = "loaded" /\ reader[r].alone
     /\ writer.pc = "idle" /\ writer.rc = FBCLOCK_E_NO_ERROR /\ nstores > 0)
      => /\ reader[r].load_rc = FBCLOCK_E_NO_ERROR
         /\ reader[r].i = 0
         /\ reader[r].seq = shmp_v2.seq
         /\ \A f \in Range(FieldsV2) : reader[r].state[f] = writer.data[f]

\* the second record of the test's writer was stored and then loaded back,
\* undisturbed, with its PHC and system clock times
C28_WitnessSecondRecord ==
  \E r \in Readers :
    /\ reader[r].pc = "loaded" /\ reader[r].alone
    /\ writer.pc = "idle" /\ writer.rc = FBCLOCK_E_NO_ERROR /\ nstores = 2
    /\ reader[r].state = TestDataV2(2)
    /\ reader[r].state.sysclock_time_ns # U64(0)
    /\ reader[r].i = 0

----------------------------------------------------------------------------
(* Properties of the two PHC sampling methods.                             *)

ReadPtpOffsetDone ==
  /\ call.pc = "done"
  /\ call.fn \in {"fbclock_read_ptp_offset", "fbclock_read_ptp_offset_extended"}

\* C27: on the same three timestamps system before, PHC, system after, the
\* basic and the extended method return the same code, ts and delay: -1
\* with res untouched when the ioctl fails, and otherwise ts = the PHC
\* timestamp and delay = system after - system before (the minimum over the
\* one sample either method asks for), with -2 when the delay is negative.
C27_SamplersAgree ==
  ReadPtpOffsetDone =>
    /\ call.out = fbclock_read_ptp_offset_extended(call.sample)
    /\ call.out = fbclock_read_ptp_offset(SysOffsetOf(call.sample))
    /\ call.sample.r # 0 => call.out = [NoSample EXCEPT !.rc = -1, !.sampled = TRUE]
    /\ call.sample.r = 0 =>
         /\ call.out.ts = fbclock_pct2ns(call.sample.ts[2])
         /\ call.out.delay = U64Sub(fbclock_pct2ns(call.sample.ts[3]),
                                    fbclock_pct2ns(call.sample.ts[1]))
         /\ call.out.rc = IF I64IsNeg(call.out.delay) THEN -2 ELSE 0

\* the basic method on the sample taken in 500 ns
C27_WitnessBasic500 ==
  /\ ReadPtpOffsetDone /\ call.fn = "fbclock_read_ptp_offset"
  /\ call.out.rc = 0 /\ call.out.delay = U64(500)
  /\ call.out.ts = Dec(<<1, 647269091, 803102957>>)

----------------------------------------------------------------------------
(* Properties of the v2 protocol after the daemon died inside a store.     *)

WriterWasKilled == call.fn = "kill"

\* a store call that began after the daemon was killed is under way, past
\* its first sequence update
LaterStoreCopies == WriterWasKilled /\ writer.pc \in {"copy", "even"}

\* a store call that began after the daemon was killed has returned
LaterStoreReturned ==
  /\ WriterWasKilled /\ writer.pc = "idle"
  /\ writer.rc = FBCLOCK_E_NO_ERROR /\ nstores > call.stores

\* C29 as stated: after a store call was interrupted with the sequence word
\* left odd, the word is odd throughout the payload copy of a later store
\* call and even once that call has returned, and no load that returns
\* FBCLOCK_E_NO_ERROR delivers a record that mixes two payloads.
C29_AsStated ==
  /\ LaterStoreCopies => SeqIsOdd(shmp_v2.seq)
  /\ LaterStoreReturned => ~SeqIsOdd(shmp_v2.seq)
  /\ \A r \in Readers :
       (reader[r].pc = "loaded" /\ reader[r].load_rc = FBCLOCK_E_NO_ERROR)
         => reader[r].state \in CompletePayloadsV2

----------------------------------------------------------------------------
(* Properties of the v1 checksum.                                          *)

\* the load of handle r has returned a record whose checksum matched
AcceptedByChecksumV1(r) ==
  /\ reader[r].pc = "loaded" /\ reader[r].matched
  /\ reader[r].load_rc = FBCLOCK_E_NO_ERROR

\* C30 as stated: every record that fbclock_clockdata_load_data accepts
\* through a checksum match is, in all seven fields, the record given to
\* one single store call (or the frame as ftruncate left it), also when the
\* records published differ in the smear and UTC-offset fields only.
C30_AsStated ==
  \A r \in Readers :
    AcceptedByChecksumV1(r) =>
      reader[r].state \in PayloadsV1(workload) \cup {ZeroData(FieldsV1)}

----------------------------------------------------------------------------
(* Properties of the life of a handle.                                     *)

\* the last three characters of the path are _ v 2
EndsInV2(path) ==
  /\ Len(path) >= 3
  /\ path[Len(path) - 2] = "_" /\ path[Len(path) - 1] = "v" /\ path[Len(path)] = "2"

\* handle r is inside, or has made, a gettime call
HasCalled(r) == reader[r].pc # "idle" \/ reader[r].calls = 1

\* C21: after a fbclock_init that returned FBCLOCK_E_NO_ERROR one of
\* lib->shmp, lib->shmp_v2 is a mapping and the other NULL, lib->shmp_v2 is
\* the mapping exactly when the path ends in "_v2", and every gettime call
\* on the handle runs the load of that layout: sequence loads and the v2
\* record for v2, the checksum comparison and the v1 record for v1.
C21_OneMappingByPath ==
  \A r \in Readers :
    call.h[r].live = "ready" =>
      /\ {call.h[r].lib.shmp, call.h[r].lib.shmp_v2} = {"mapped", "NULL"}
      /\ call.h[r].lib.shmp_v2 = "mapped" <=> EndsInV2(call.h[r].path)
      /\ HasCalled(r) =>
           /\ DOMAIN reader[r].state =
                Range(IF EndsInV2(call.h[r].path) THEN FieldsV2 ELSE FieldsV1)
           /\ reader[r].pc \in {"seq1", "seq2"} => EndsInV2(call.h[r].path)
           /\ reader[r].pc = "crc" => ~EndsInV2(call.h[r].path)
           /\ reader[r].load_rc = FBCLOCK_E_CRC_MISMATCH => EndsInV2(call.h[r].path)

\* a handle on FBCLOCK_PATH_V2 has loaded the record of the v2 frame
C21_WitnessV2Loaded ==
  \E r \in Readers :
    /\ call.h[r].live = "ready" /\ call.h[r].path = FBCLOCK_PATH_V2
    /\ reader[r].pc = "loaded" /\ reader[r].load_rc = FBCLOCK_E_NO_ERROR
    /\ reader[r].state = TestDataV2(1)

\* fbclock_init has returned on handle r
InitReturned(r) == call.h[r].live \in {"ready", "failed", "destroyed"}

\* C22: fbclock_init returns FBCLOCK_E_SHMEM_OPEN when the file cannot be
\* opened, otherwise FBCLOCK_E_PTP_OPEN when the PHC device cannot be
\* opened, otherwise FBCLOCK_E_SHMEM_MAP_FAILED when mmap fails, and
\* FBCLOCK_E_NO_ERROR when the three succeeded, whatever the
\* PTP_SYS_OFFSET_EXTENDED probe returned; the handle is usable exactly in
\* the last case.
C22_InitErrorCodes ==
  \A r \in Readers :
    InitReturned(r) =>
      /\ call.h[r].rc =
           IF call.h[r].path \notin call.files THEN FBCLOCK_E_SHMEM_OPEN
           ELSE IF ~call.h[r].sys.ptp_open THEN FBCLOCK_E_PTP_OPEN
           ELSE IF ~call.h[r].sys.mmap THEN FBCLOCK_E_SHMEM_MAP_FAILED
           ELSE FBCLOCK_E_NO_ERROR
      /\ call.h[r].live = "failed" <=> call.h[r].rc # FBCLOCK_E_NO_ERROR

\* the probe failed, the rest succeeded: fbclock_init returned
\* FBCLOCK_E_NO_ERROR with the basic method, and a gettime call went through
C22_WitnessProbeFailedNoError ==
  \E r \in Readers :
    /\ call.h[r].live = "ready" /\ ~call.h[r].sys.probe
    /\ call.h[r].rc = FBCLOCK_E_NO_ERROR
    /\ call.h[r].lib.gettime = "fbclock_read_ptp_offset"
    /\ reader[r].pc = "idle" /\ reader[r].calls = 1
    /\ reader[r].rc = FBCLOCK_E_NO_ERROR

\* the ioctl request of a sampling method
RequestOf(gettime) ==
  IF gettime = "fbclock_read_ptp_offset_extended"
    THEN "PTP_SYS_OFFSET_EXTENDED" ELSE "PTP_SYS_OFFSET"

C23_Step ==
  \A r \in Readers :
    /\ call.h[r].live # "fresh"
         => call'.h[r].lib.gettime = call.h[r].lib.gettime
    /\ (ReturnsV1(r) /\ reader'[r].res.sampled)
         => /\ reader'[r].res.request = RequestOf(call.h[r].lib.gettime)
            /\ reader'[r].res.rc # 0
                 => reader'[r].rc = FBCLOCK_E_PTP_READ_OFFSET

\* C23: fbclock_init sets the sampling method to the extended one when its
\* PTP_SYS_OFFSET_EXTENDED probe succeeds and to the basic one otherwise; no
\* later step changes it; every sample a gettime call takes is requested
\* with the ioctl of that method, and when that ioctl fails the call returns
\* FBCLOCK_E_PTP_READ_OFFSET.
C23_MethodLatchedAtInit ==
  /\ [](\A r \in Readers :
          (InitReturned(r) /\ call.h[r].lib.gettime # "unset")
            => call.h[r].lib.gettime =
                 IF call.h[r].sys.probe THEN "fbclock_read_ptp_offset_extended"
                                        ELSE "fbclock_read_ptp_offset")
  /\ [][C23_Step]_vars

\* on a handle that latched the extended method a later
\* PTP_SYS_OFFSET_EXTENDED ioctl failed: the call returned
\* FBCLOCK_E_PTP_READ_OFFSET and the method is still the extended one
C23_WitnessExtendedFailsLater ==
  \E r \in Readers :
    /\ call.h[r].live = "ready"
    /\ call.h[r].lib.gettime = "fbclock_read_ptp_offset_extended"
    /\ reader[r].pc = "idle" /\ reader[r].res.sampled /\ reader[r].res.rc = -1
    /\ reader[r].res.request = "PTP_SYS_OFFSET_EXTENDED"
    /\ reader[r].rc = FBCLOCK_E_PTP_READ_OFFSET
    /\ reader[r].min_phc_delay = U64(300)

\* a step of the library (fbclock_init, a step of a gettime call and of the
\* load inside it, fbclock_destroy), not of the daemon
ReadSideStep == writer' = writer /\ nstores' = nstores

C25_Step ==
  ReadSideStep =>
    /\ shmp' = shmp /\ shmp_v2' = shmp_v2
    /\ call'.files = call.files

\* C25: no step of fbclock_init, fbclock_gettime, fbclock_gettime_utc, the
\* loads inside them, or fbclock_destroy changes the checksum word, the
\* sequence word or the payload of either frame, or removes a file: the
\* frames are what the daemon's stores made them and the files are there.
C25_ReadSideLeavesFrame ==
  /\ [](call.files = ShmFiles)
  /\ [][C25_Step]_vars

\* a handle was initialised, made a gettime call that succeeded and was
\* destroyed: its file is there and holds the record of the last store
C25_WitnessDestroyedFileIntact ==
  \E r \in Readers :
    /\ call.h[r].live = "destroyed" /\ call.h[r].path \in call.files
    /\ reader[r].calls = 1 /\ reader[r].rc = FBCLOCK_E_NO_ERROR
    /\ EndsInV2(call.h[r].path)
    /\ writer.pc = "idle" /\ writer.rc = FBCLOCK_E_NO_ERROR
    /\ shmp_v2.data = TestDataV2(2) /\ writer.data = shmp_v2.data

----------------------------------------------------------------------------
(* Properties of the width of the interval.                                *)

\* the call of fbclock_calculate_time_v2 has returned FBCLOCK_E_NO_ERROR
CalcTimeV2Done ==
  /\ call.pc = "done" /\ call.fn = "fbclock_calculate_time_v2"
  /\ call.out.rc = FBCLOCK_E_NO_ERROR

\* latest_ns - earliest_ns of a finished call
WidthOfCall(c) == U64Sub(c.out.truetime.latest_ns, c.out.truetime.earliest_ns)

\* the third call of the unit test: the test's record, error bound 1000,
\* h = 50.5, the system clock six hours after the daemon read it
IsTestCalcCallV2Late(c) ==
  /\ c.state = CalcStateV2
  /\ c.error_bound_ns = U64(1000)
  /\ c.h_value_ns = <<101, 1>>
  /\ c.sysclock_time_now_ns = U64Add(TestSysclockTime, U64Of(Dec(<<21600, 0>>)))
  /\ c.time_standard = FBCLOCK_TAI

\* C31: the interval fbclock_calculate_time_v2 returns is 2w wide with
\* w = error_bound_ns + trunc(h * (published phc_time_ns - ingress_time_ns)
\* / 1e9), whatever sysclock_time_now_ns is: calls against the same snapshot
\* return intervals of the same width however much system time has passed,
\* and only the middle moves.  Six hours after the snapshot the test's call
\* with error bound 1000 gives w = 1000 + 447 and
\* [1647290691803360710, 1647290691803363604].
C31_WidthFromPublishedPhcTime ==
  CalcTimeV2Done =>
    /\ WidthOfCall(call)
         = U64Mul(U64(2), WouOfCall(call, call.state.phc_time_ns))
    /\ IsTestCalcCallV2Late(call) =>
         /\ WouOfCall(call, call.state.phc_time_ns) = U64(1447)
         /\ call.out.truetime.earliest_ns = Dec(<<1, 647290691, 803360710>>)
         /\ call.out.truetime.latest_ns = Dec(<<1, 647290691, 803363604>>)

\* the test's call six hours after the snapshot has returned an interval
\* 2 * 1447 ns wide
C31_WitnessSixHoursLater ==
  /\ CalcTimeV2Done /\ IsTestCalcCallV2Late(call)
  /\ WidthOfCall(call) = U64(2894)

\* the PHC time the elapsed seconds of an assembler call are counted to: the
\* sample of fbclock_calculate_time, the published phc_time_ns of
\* fbclock_calculate_time_v2
ElapsedToOfCall(c) ==
  IF c.fn = "fbclock_calculate_time" THEN c.phctime_ns ELSE c.state.phc_time_ns

\* the middle of the interval a call returned
MiddleOfCall(c) ==
  U64Add(c.out.truetime.earliest_ns, U64Div(WidthOfCall(c), U64(2)))

\* C32: for the same record and the same clock sample the UTC interval is as
\* wide as the TAI interval, 2w with w = error_bound + trunc(h * elapsed
\* seconds), the elapsed seconds counted on the TAI values: the conversion
\* moves the middle only, by the UTC offset or by the smeared offset inside
\* the smear window, and both ends are taken from the converted middle.
C32_UtcIntervalAsWideAsTai ==
  AssemblerDone /\ call.time_standard = FBCLOCK_UTC
      /\ call.out.rc = FBCLOCK_E_NO_ERROR =>
    \E tai \in {TaiOfCall(call)},
       w \in {WouOfCall(call, ElapsedToOfCall(call))} :
      /\ tai.rc = FBCLOCK_E_NO_ERROR
      /\ WidthOfCall(call) = U64Add(w, w)
      /\ WidthOfCall(call) = U64Sub(tai.truetime.latest_ns, tai.truetime.earliest_ns)
      /\ call.out.truetime.earliest_ns = U64Sub(MiddleOfCall(call), w)
      /\ call.out.truetime.latest_ns = U64Add(MiddleOfCall(call), w)

\* a UTC interval was returned for a record with the leap second of 2017
\* and a PHC time inside its smear window: the middle is between 36 s and
\* 37 s below the PHC time, the width is 2w
C32_WitnessInsideSmearWindow ==
  /\ call.pc = "done" /\ call.fn = "fbclock_calculate_time"
  /\ call.time_standard = FBCLOCK_UTC
  /\ call.out.rc = FBCLOCK_E_NO_ERROR
  /\ call.state.utc_offset_pre_s = U64(36) /\ call.state.utc_offset_post_s = U64(37)
  /\ call.phctime_ns = Dec(<<1, 483261336, 0>>)
  /\ U64Lt(U64Of(Dec(<<36, 0>>)), U64Sub(call.phctime_ns, MiddleOfCall(call)))
  /\ U64Lt(U64Sub(call.phctime_ns, MiddleOfCall(call)), U64Of(Dec(<<37, 0>>)))
  /\ WidthOfCall(call)
       = U64Mul(U64(2), WouOfCall(call, call.phctime_ns))

----------------------------------------------------------------------------
(* Properties of the caller's fbclock_truetime.                            *)

\* the call of caller r is under way
InGettime(r) == reader[r].calls = 1 /\ reader[r].pc # "idle"

\* the call of caller r has returned the code rc
GettimeReturned(r, rc) ==
  reader[r].calls = 1 /\ reader[r].pc = "idle" /\ reader[r].rc = rc

\* C33: when fbclock_gettime or fbclock_gettime_utc returns a code other
\* than FBCLOCK_E_NO_ERROR, on a v1 or on a v2 handle, the caller's
\* fbclock_truetime holds what it held before the call, zeros or an earlier
\* interval; it is not written while the call is under way either.
C33_TruetimeKeptOnError ==
  \A r \in Readers :
    /\ InGettime(r) => reader[r].truetime = call.before[r]
    /\ reader[r].calls = 1 /\ reader[r].pc = "idle"
         /\ reader[r].rc # FBCLOCK_E_NO_ERROR
         => reader[r].truetime = call.before[r]

\* a caller whose struct held an earlier interval got
\* FBCLOCK_E_PHC_IN_THE_PAST from a v1 handle, the last of the error
\* returns, and still has that interval
C33_WitnessPreviousIntervalKept ==
  \E r \in Readers :
    /\ GettimeReturned(r, FBCLOCK_E_PHC_IN_THE_PAST)
    /\ ~UsesV2(call.h[r].lib)
    /\ call.before[r] = PreviousTruetime
    /\ reader[r].truetime = PreviousTruetime

----------------------------------------------------------------------------
(* Properties of the descriptors of fbclock_init.                          *)

\* the descriptors fbclock_init opened on handle r and has not closed:
\* fbclock_init has no close, so they are the ones it stored in the struct
OpenDescriptors(r) ==
  {fd \in {"shm_fd", "dev_fd"} : call.h[r].lib[fd] = "open"}

\* C34: when fbclock_init has returned FBCLOCK_E_PTP_OPEN or
\* FBCLOCK_E_SHMEM_MAP_FAILED, every descriptor it opened earlier in the
\* call is closed: a failed attempt leaves no descriptor open.
C34_AsStated ==
  \A r \in Readers :
    call.h[r].live = "failed"
        /\ call.h[r].rc \in {FBCLOCK_E_PTP_OPEN, FBCLOCK_E_SHMEM_MAP_FAILED}
      => OpenDescriptors(r) = {}

====
